---- MODULE Spec2Model ----
(***************************************************************************)
(* Model of the signature verification service of the rollup operator     *)
(* (core/bin/zksync_api/src/signature_checker.rs): the Ethereum signature *)
(* check, the batch sender/signature matching, the two verification       *)
(* stages of VerifiedTx::verify, and the dispatcher that spawns one       *)
(* worker per request.                                                     *)
(***************************************************************************)
EXTENDS Integers, Sequences, FiniteSets, TLC

(***************************************************************************)
(* Bounds of the model.                                                    *)
(***************************************************************************)
MaxSenders == 3
MaxSignatures == 2
MaxBatch == 2
MaxBatchSignatures == 1
MaxRequests == 2

(***************************************************************************)
(* Addresses and Ethereum signatures.                                      *)
(***************************************************************************)
Addresses == {"A", "B", "C"}

\* Result of a failed signature recovery: no address.
NoAddress == "none"

\* TxEthSignature::EthereumSignature: a packed signature; `signer` is the
\* address signature_recover_signer yields over the message it is checked
\* against (NoAddress when recovery fails).
EthereumSignature(signer) ==
    [form |-> "EthereumSignature", signer |-> signer, valid |-> {}, reachable |-> TRUE]

\* TxEthSignature::EIP1271Signature: validity is decided by the contract at
\* the sender address; `valid` is the set of addresses whose contract accepts
\* the signature, `reachable` is whether the call to the contract completes.
EIP1271Signature(valid, reachable) ==
    [form |-> "EIP1271Signature", signer |-> NoAddress, valid |-> valid, reachable |-> reachable]

RecoverableSignatures == {EthereumSignature(a) : a \in Addresses \cup {NoAddress}}

ContractSignatures ==
    {EIP1271Signature({"B"}, TRUE), EIP1271Signature({"A", "B"}, TRUE),
     EIP1271Signature({}, FALSE)}

Signatures == RecoverableSignatures \cup ContractSignatures

\* PackedEthSignature::signature_recover_signer: Ok(address) or Err.
signature_recover_signer(sig) ==
    IF sig.signer = NoAddress THEN [ok |-> FALSE, address |-> NoAddress]
    ELSE [ok |-> TRUE, address |-> sig.signer]

\* EthereumChecker::is_eip1271_signature_correct: Ok(bool), or Err when the
\* call cannot be completed.
is_eip1271_signature_correct(sender_address, sig) ==
    IF ~sig.reachable THEN "Err"
    ELSE IF sender_address \in sig.valid THEN "true" ELSE "false"

\* The function with the result of the recovery unwrapped: a signature that
\* does not recover is a fault.
verify_ethereum_signature_UnwrapsRecovery(eth_signature, sender_address) ==
    IF eth_signature.form = "EIP1271Signature"
    THEN LET r == is_eip1271_signature_correct(sender_address, eth_signature)
         IN IF r = "Err" THEN "panic" ELSE r
    ELSE LET signer_account == signature_recover_signer(eth_signature)
         IN IF signer_account.ok
            THEN (IF signer_account.address = sender_address THEN "true" ELSE "false")
            ELSE "panic"

\* verify_ethereum_signature: "true" / "false", or "panic" when the EIP-1271
\* call fails (the .expect on the oracle result).
verify_ethereum_signature(eth_signature, sender_address) ==
    IF eth_signature.form = "EIP1271Signature"
    THEN LET r == is_eip1271_signature_correct(sender_address, eth_signature)
         IN IF r = "Err" THEN "panic" ELSE r
    ELSE LET signer_account == signature_recover_signer(eth_signature)
         IN IF signer_account.ok
            THEN (IF signer_account.address = sender_address THEN "true" ELSE "false")
            ELSE "false"

(***************************************************************************)
(* Batch matching: verify_eth_signature_txs_batch.                         *)
(* The loop state: i is the index of the sender the outer loop is at,      *)
(* signers the cache of verified senders, checked the log of the           *)
(* verify_ethereum_signature calls made, as <<sender index, signature      *)
(* index>>, res the result ("Running" while the loop runs).                *)
(***************************************************************************)
BatchStart == [i |-> 1, signers |-> {}, checked |-> <<>>, res |-> "Running"]

\* The inner loop over the signatures for one sender, from signature j on:
\* the outcome and the number of signatures examined.
RECURSIVE ScanSignatures(_, _, _)
ScanSignatures(signatures, sender, j) ==
    IF j > Len(signatures) THEN [found |-> "false", last |-> j - 1]
    ELSE LET signature_correct == verify_ethereum_signature(signatures[j], sender)
         IN IF signature_correct = "true" THEN [found |-> "true", last |-> j]
            ELSE IF signature_correct = "panic" THEN [found |-> "panic", last |-> j]
            ELSE ScanSignatures(signatures, sender, j + 1)

\* A scan that does not stop at the first match.
RECURSIVE ScanSignatures_NoBreak(_, _, _)
ScanSignatures_NoBreak(signatures, sender, j) ==
    IF j > Len(signatures) THEN [found |-> "false", last |-> j - 1]
    ELSE LET signature_correct == verify_ethereum_signature(signatures[j], sender)
             rest == ScanSignatures_NoBreak(signatures, sender, j + 1)
         IN IF signature_correct = "panic" THEN [found |-> "panic", last |-> j]
            ELSE IF signature_correct = "true" /\ rest.found # "panic"
                 THEN [found |-> "true", last |-> rest.last]
            ELSE rest

ScanLog(i, last) == [k \in 1..last |-> <<i, k>>]

\* The loop without the check of the signature budget.
BatchNext_NoPigeonhole(st, senders, signatures) ==
    IF st.i > Len(senders) THEN [st EXCEPT !.res = "Ok"]
    ELSE LET sender == senders[st.i] IN
      IF sender \in st.signers THEN [st EXCEPT !.i = @ + 1]
      ELSE LET sc == ScanSignatures(signatures, sender, 1)
               log == st.checked \o ScanLog(st.i, sc.last)
           IN IF sc.found = "true"
              THEN [st EXCEPT !.i = @ + 1, !.signers = @ \cup {sender}, !.checked = log]
              ELSE IF sc.found = "panic"
                   THEN [st EXCEPT !.res = "Panic", !.checked = log]
              ELSE [st EXCEPT !.res = "IncorrectEthSignature", !.checked = log]

\* The loop with an inner scan that goes on after the first match.
BatchNext_NoBreak(st, senders, signatures) ==
    IF st.i > Len(senders) THEN [st EXCEPT !.res = "Ok"]
    ELSE LET sender == senders[st.i] IN
      IF sender \in st.signers THEN [st EXCEPT !.i = @ + 1]
      ELSE IF Cardinality(st.signers) = Len(signatures)
           THEN [st EXCEPT !.res = "IncorrectEthSignature"]
      ELSE LET sc == ScanSignatures_NoBreak(signatures, sender, 1)
               log == st.checked \o ScanLog(st.i, sc.last)
           IN IF sc.found = "true"
              THEN [st EXCEPT !.i = @ + 1, !.signers = @ \cup {sender}, !.checked = log]
              ELSE IF sc.found = "panic"
                   THEN [st EXCEPT !.res = "Panic", !.checked = log]
              ELSE [st EXCEPT !.res = "IncorrectEthSignature", !.checked = log]

\* The loop that goes on to the next sender when no signature matched.
BatchNext_IgnoresMiss(st, senders, signatures) ==
    IF st.i > Len(senders) THEN [st EXCEPT !.res = "Ok"]
    ELSE LET sender == senders[st.i] IN
      IF sender \in st.signers THEN [st EXCEPT !.i = @ + 1]
      ELSE IF Cardinality(st.signers) = Len(signatures)
           THEN [st EXCEPT !.res = "IncorrectEthSignature"]
      ELSE LET sc == ScanSignatures(signatures, sender, 1)
               log == st.checked \o ScanLog(st.i, sc.last)
           IN IF sc.found = "true"
              THEN [st EXCEPT !.i = @ + 1, !.signers = @ \cup {sender}, !.checked = log]
              ELSE IF sc.found = "panic"
                   THEN [st EXCEPT !.res = "Panic", !.checked = log]
              ELSE [st EXCEPT !.i = @ + 1, !.checked = log]

\* One iteration of `for sender in senders` of verify_eth_signature_txs_batch
\* (or the final Ok(()) once the senders are exhausted).
BatchNext(st, senders, signatures) ==
    IF st.i > Len(senders) THEN [st EXCEPT !.res = "Ok"]
    ELSE LET sender == senders[st.i] IN
      \* if signers.contains(sender) { continue; }
      IF sender \in st.signers THEN [st EXCEPT !.i = @ + 1]
      \* if signers.len() == batch_sign_data.signatures.len() { return Err(..) }
      ELSE IF Cardinality(st.signers) = Len(signatures)
           THEN [st EXCEPT !.res = "IncorrectEthSignature"]
      ELSE LET sc == ScanSignatures(signatures, sender, 1)
               log == st.checked \o ScanLog(st.i, sc.last)
           IN IF sc.found = "true"
              THEN [st EXCEPT !.i = @ + 1, !.signers = @ \cup {sender}, !.checked = log]
              ELSE IF sc.found = "panic"
                   THEN [st EXCEPT !.res = "Panic", !.checked = log]
              ELSE [st EXCEPT !.res = "IncorrectEthSignature", !.checked = log]

\* verify_eth_signature_txs_batch run to its end.
RECURSIVE BatchRun(_, _, _)
BatchRun(st, senders, signatures) ==
    IF st.res # "Running" THEN st
    ELSE BatchRun(BatchNext(st, senders, signatures), senders, signatures)

verify_eth_signature_txs_batch(senders, signatures) ==
    BatchRun(BatchStart, senders, signatures)

(***************************************************************************)
(* Transactions and verification requests.                                 *)
(***************************************************************************)
SeqsUpTo(S, n) == UNION {[1..k -> S] : k \in 0..n}

\* Option<T>: None is <<>>, Some(x) is <<x>>.
None == <<>>
Some(x) == <<x>>
Option(S) == {None} \cup {Some(x) : x \in S}

\* Result<bool, _> of a call to the authorization oracle.
OracleAnswers == {"true", "false", "Err"}

\* SignedZkSyncTx, by what the verification reads of it:
\*   kind            the ZkSyncTx variant ("Transfer" stands for every variant
\*                   other than ChangePubKey and ChangeGroup),
\*   onchain         ChangePubKey::is_onchain(),
\*   authorized      the oracle's answer for this transaction
\*                   (is_new_pubkey_hash_authorized for a ChangePubKey,
\*                   is_user_allowed_to_transfer_to_this_group for a ChangeGroup),
\*   eth_sign_data   Option<EthSignData>, the signature over its own message,
\*   correct         whether ZkSyncTx::check_correctness returns Ok for it.
SignedZkSyncTx(kind, onchain, authorized, eth_sign_data, correct) ==
    [kind |-> kind, onchain |-> onchain, authorized |-> authorized,
     eth_sign_data |-> eth_sign_data, correct |-> correct]

TxShapes ==
    {<<"Transfer", FALSE, "true">>, <<"ChangePubKey", FALSE, "true">>}
    \cup {<<"ChangePubKey", TRUE, a>> : a \in OracleAnswers}
    \cup {<<"ChangeGroup", FALSE, a>> : a \in OracleAnswers}

Transactions ==
    {SignedZkSyncTx(sh[1], sh[2], sh[3], e, c) :
        sh \in TxShapes, e \in Option(Signatures), c \in BOOLEAN}

\* The transactions of batches and of the service specification: a plain
\* transfer, and transactions that differ from it in one respect.
PlainTransfer == SignedZkSyncTx("Transfer", FALSE, "true", None, TRUE)

CommonTransactions ==
    {PlainTransfer,
     [PlainTransfer EXCEPT !.correct = FALSE],
     [PlainTransfer EXCEPT !.eth_sign_data = Some(EthereumSignature("A"))],
     SignedZkSyncTx("ChangePubKey", TRUE, "false", None, TRUE)}
    \cup {SignedZkSyncTx("ChangeGroup", FALSE, a, None, TRUE) : a \in OracleAnswers}

BatchSenders == {"A", "B"}

BatchSignatures == {EthereumSignature("A"), EIP1271Signature({}, FALSE)}

\* RequestData: Tx(TxRequest), Batch(BatchRequest), Order(OrderRequest) or
\* Toggle2FA(Toggle2FARequest). A Tx request has one tx, one sender and one
\* token; an Order and a Toggle2FA have one sender and sign_data.
\* batch_sign_data is Option<EthBatchSignData>, by its signatures;
\* order_correct is whether Order::check_correctness returns Ok.
RequestData(type, txs, senders, tokens, batch_sign_data, sign_data, order_correct) ==
    [type |-> type, txs |-> txs, senders |-> senders, tokens |-> tokens,
     batch_sign_data |-> batch_sign_data, sign_data |-> sign_data,
     order_correct |-> order_correct]

TokenId == "token"

TxRequests ==
    {RequestData("Tx", <<t>>, <<a>>, <<TokenId>>, None, None, TRUE) :
        t \in Transactions, a \in Addresses}

BatchRequests ==
    {RequestData("Batch", t, a, [k \in 1..n |-> TokenId], b, None, TRUE) :
        t \in SeqsUpTo(CommonTransactions, MaxBatch),
        a \in SeqsUpTo(BatchSenders, MaxBatch),
        n \in 0..MaxBatch,
        b \in Option(SeqsUpTo(BatchSignatures, MaxBatchSignatures))}

OrderRequests ==
    {RequestData("Order", <<>>, <<a>>, <<>>, None, Some(g), c) :
        a \in Addresses, g \in Signatures, c \in BOOLEAN}

Toggle2FARequests ==
    {RequestData("Toggle2FA", <<>>, <<a>>, <<>>, None, Some(g), TRUE) :
        a \in Addresses, g \in Signatures}

Requests == TxRequests \cup BatchRequests \cup OrderRequests \cup Toggle2FARequests

(***************************************************************************)
(* The base-chain stage: verify_eth_signature.  Each function returns its  *)
(* result (res: "Ok", the TxAddError, or "Panic") and the log of the calls *)
(* it made: call is the function called, tx the index of the transaction   *)
(* (or sender) it was made for, ans what it returned.                      *)
(***************************************************************************)
Call(call, tx, ans) == [call |-> call, tx |-> tx, ans |-> ans]

OracleCalls ==
    {"is_eip1271_signature_correct", "is_new_pubkey_hash_authorized",
     "is_user_allowed_to_transfer_to_this_group"}

StorageCalls == {"establish_connection", "is_account_autorised"}

\* The log entry of one verify_ethereum_signature(signature, .., sender, ..).
SignatureCall(signature, sender, tx) ==
    LET r == verify_ethereum_signature(signature, sender)
    IN Call(IF signature.form = "EIP1271Signature"
            THEN "is_eip1271_signature_correct" ELSE "signature_recover_signer",
            tx, IF r = "panic" THEN "Err" ELSE r)

\* The function without the is_onchain() test: the oracle is asked about
\* every ChangePubKey.
verify_eth_signature_single_tx_AnyChangePubKey(tx, sender_address, k) ==
    LET enter == <<Call("verify_eth_signature_single_tx", k, "-")>>
        change_pk == tx.kind = "ChangePubKey"
        log1 == IF change_pk
                THEN enter \o <<Call("is_new_pubkey_hash_authorized", k, tx.authorized)>>
                ELSE enter
        change_group == tx.kind = "ChangeGroup"
        log2 == IF change_group
                THEN log1 \o <<Call("is_user_allowed_to_transfer_to_this_group", k,
                                    tx.authorized)>>
                ELSE log1
    IN IF change_pk /\ tx.authorized = "Err" THEN [res |-> "Panic", log |-> log1]
       ELSE IF change_pk /\ tx.authorized = "false"
            THEN [res |-> "ChangePkNotAuthorized", log |-> log1]
       ELSE IF change_group /\ tx.authorized = "Err" THEN [res |-> "Panic", log |-> log2]
       ELSE IF change_group /\ tx.authorized = "false"
            THEN [res |-> "UserNotWhitelisted", log |-> log2]
       ELSE IF tx.eth_sign_data = None THEN [res |-> "Ok", log |-> log2]
       ELSE LET signature == tx.eth_sign_data[1]
                signature_correct == verify_ethereum_signature(signature, sender_address)
                log3 == log2 \o <<SignatureCall(signature, sender_address, k)>>
            IN IF signature_correct = "panic" THEN [res |-> "Panic", log |-> log3]
               ELSE IF signature_correct = "false"
                    THEN [res |-> "IncorrectEthSignature", log |-> log3]
               ELSE [res |-> "Ok", log |-> log3]

\* verify_eth_signature_single_tx(tx, sender_address, eth_checker), for the
\* transaction at index k.
verify_eth_signature_single_tx(tx, sender_address, k) ==
    LET enter == <<Call("verify_eth_signature_single_tx", k, "-")>>
        change_pk == tx.kind = "ChangePubKey" /\ tx.onchain
        log1 == IF change_pk
                THEN enter \o <<Call("is_new_pubkey_hash_authorized", k, tx.authorized)>>
                ELSE enter
        change_group == tx.kind = "ChangeGroup"
        log2 == IF change_group
                THEN log1 \o <<Call("is_user_allowed_to_transfer_to_this_group", k,
                                    tx.authorized)>>
                ELSE log1
    IN IF change_pk /\ tx.authorized = "Err" THEN [res |-> "Panic", log |-> log1]
       ELSE IF change_pk /\ tx.authorized = "false"
            THEN [res |-> "ChangePkNotAuthorized", log |-> log1]
       ELSE IF change_group /\ tx.authorized = "Err" THEN [res |-> "Panic", log |-> log2]
       ELSE IF change_group /\ tx.authorized = "false"
            THEN [res |-> "UserNotWhitelisted", log |-> log2]
       ELSE IF tx.eth_sign_data = None THEN [res |-> "Ok", log |-> log2]
       ELSE LET signature == tx.eth_sign_data[1]
                signature_correct == verify_ethereum_signature(signature, sender_address)
                log3 == log2 \o <<SignatureCall(signature, sender_address, k)>>
            IN IF signature_correct = "panic" THEN [res |-> "Panic", log |-> log3]
               ELSE IF signature_correct = "false"
                    THEN [res |-> "IncorrectEthSignature", log |-> log3]
               ELSE [res |-> "Ok", log |-> log3]

Min(a, b) == IF a < b THEN a ELSE b

\* The number of iterations of txs.iter().zip(accounts.iter()).zip(tokens..).
ZipLen(txs, accounts, tokens) == Min(Min(Len(txs), Len(accounts)), Len(tokens))

\* The loop `for ((tx, &account), _token) in ..` of verify_eth_signature, from
\* index k up to n.
RECURSIVE SingleTxLoop(_, _, _, _, _)
SingleTxLoop(txs, accounts, n, k, log) ==
    IF k > n THEN [res |-> "Ok", log |-> log]
    ELSE LET r == verify_eth_signature_single_tx(txs[k], accounts[k], k)
         IN IF r.res = "Ok" THEN SingleTxLoop(txs, accounts, n, k + 1, log \o r.log)
            ELSE [res |-> r.res, log |-> log \o r.log]

\* The log of the signature checks of verify_eth_signature_txs_batch.
BatchLog(st, senders, signatures) ==
    [j \in DOMAIN st.checked |->
        SignatureCall(signatures[st.checked[j][2]], senders[st.checked[j][1]], 0)]

\* A check of the tokens array in the place of the senders array.
LengthsDiffer_Tokens(request) == Len(request.tokens) # Len(request.txs)

\* if accounts.len() != request.txs.len() { return Err(TxAddError::Other); }
LengthsDiffer(request) == Len(request.senders) # Len(request.txs)

\* verify_eth_signature(request_data, eth_checker)
verify_eth_signature(request) ==
    IF request.type = "Tx"
    THEN verify_eth_signature_single_tx(request.txs[1], request.senders[1], 1)
    ELSE IF request.type = "Batch"
    THEN IF LengthsDiffer(request) THEN [res |-> "Other", log |-> <<>>]
         ELSE LET b == IF request.batch_sign_data = None THEN BatchStart
                       ELSE verify_eth_signature_txs_batch(request.senders,
                                                           request.batch_sign_data[1])
                  blog == IF request.batch_sign_data = None THEN <<>>
                          ELSE BatchLog(b, request.senders, request.batch_sign_data[1])
              IN IF request.batch_sign_data # None /\ b.res # "Ok"
                 THEN [res |-> b.res, log |-> blog]
                 ELSE SingleTxLoop(request.txs, request.senders,
                                   ZipLen(request.txs, request.senders, request.tokens),
                                   1, blog)
    ELSE \* Order and Toggle2FA
         LET signature == request.sign_data[1]
             signature_correct == verify_ethereum_signature(signature, request.senders[1])
             log == <<SignatureCall(signature, request.senders[1], 0)>>
         IN IF signature_correct = "panic" THEN [res |-> "Panic", log |-> log]
            ELSE IF signature_correct = "false"
                 THEN [res |-> "IncorrectEthSignature", log |-> log]
            ELSE [res |-> "Ok", log |-> log]

(***************************************************************************)
(* The native stage: verify_tx_correctness.  storage is the state of the   *)
(* database when the stage runs: "up", "no_connection" (establish_         *)
(* connection fails) or "query_fails" (is_account_autorised fails); each   *)
(* failure is unwrapped, so the worker panics.                             *)
(***************************************************************************)
StorageStates == {"up", "no_connection", "query_fails"}

\* The two is_account_autorised lookups and check_correctness of one
\* transaction, at index k.
CheckTx(tx, k, storage) ==
    LET q == Call("is_account_autorised", k, IF storage = "up" THEN "Ok" ELSE "Err")
    IN IF storage # "up" THEN [res |-> "Panic", log |-> <<q>>]
       ELSE [res |-> IF tx.correct THEN "Ok" ELSE "IncorrectTx",
             log |-> <<q, q, Call("check_correctness", k, IF tx.correct THEN "Ok" ELSE "Err")>>]

\* The loop without the `?`: after a member that fails the rest is checked
\* too, and the result is the one of the last member.
RECURSIVE CheckTxLoop_GoesOn(_, _, _, _)
CheckTxLoop_GoesOn(txs, k, storage, log) ==
    IF k > Len(txs) THEN [res |-> "Ok", log |-> log]
    ELSE LET r == CheckTx(txs[k], k, storage)
         IN IF r.res # "Panic" /\ k < Len(txs)
            THEN CheckTxLoop_GoesOn(txs, k + 1, storage, log \o r.log)
            ELSE [res |-> r.res, log |-> log \o r.log]

\* for tx in batch.iter_mut() { .. check_correctness(..)?; }
RECURSIVE CheckTxLoop(_, _, _, _)
CheckTxLoop(txs, k, storage, log) ==
    IF k > Len(txs) THEN [res |-> "Ok", log |-> log]
    ELSE LET r == CheckTx(txs[k], k, storage)
         IN IF r.res = "Ok" THEN CheckTxLoop(txs, k + 1, storage, log \o r.log)
            ELSE [res |-> r.res, log |-> log \o r.log]

\* verify_tx_correctness(tx_variant), on the TxVariant of the request.
verify_tx_correctness(request, storage) ==
    IF request.type \in {"Tx", "Batch"}
    THEN LET c == Call("establish_connection", 0,
                       IF storage = "no_connection" THEN "Err" ELSE "Ok")
         IN IF storage = "no_connection" THEN [res |-> "Panic", log |-> <<c>>]
            ELSE CheckTxLoop(request.txs, 1, storage, <<c>>)
    ELSE IF request.type = "Order"
    THEN LET c == Call("check_correctness", 0, IF request.order_correct THEN "Ok" ELSE "Err")
         IN [res |-> IF request.order_correct THEN "Ok" ELSE "IncorrectTx", log |-> <<c>>]
    ELSE [res |-> "Ok", log |-> <<>>]

(***************************************************************************)
(* VerifiedTx::verify: where the worker goes after each stage.             *)
(***************************************************************************)
\* verify_eth_signature(..).await? without the `?`.
AfterEthStage_GoesOn(res) == IF res = "Panic" THEN "Panicked" ELSE "AuthenticatingNative"

\* verify_eth_signature(&request_data, eth_checker).await?
AfterEthStage(res) ==
    IF res = "Ok" THEN "AuthenticatingNative"
    ELSE IF res = "Panic" THEN "Panicked"
    ELSE "Replying"

\* verify_tx_correctness(&mut tx_variant).await?; Ok(Self(tx_variant))
AfterNativeStage(res) == IF res = "Panic" THEN "Panicked" ELSE "Replying"

(***************************************************************************)
(* The state transition handler: ZkSyncState as TxHandler<ChangeGroup>     *)
(* and TxHandler<FullChangeGroup>.                                         *)
(***************************************************************************)
\* Bounds of the handler's inputs.
MaxBalance == 3
MaxAmount == 2
MaxFee == 1
MaxCalls == 3

\* zksync_crypto::params, scaled down and keeping their order: tokens up to
\* max_processable_token may pay fees, tokens up to max_fungible_token_id
\* are fungible, tokens above it up to max_token_id are NFTs.
max_processable_token == 0
max_fungible_token_id == 1
max_token_id == 3
max_account_id == 2

TokenIds == 0 .. (max_token_id + 1)
AccountIds == 0 .. (max_account_id + 1)

\* PubKeyHash: PubKeyHash::default() and the hashes of two keys.
DefaultPubKeyHash == "default"
PubKeyHashes == {DefaultPubKeyHash, "pkA", "pkB"}

\* Account: address, pub_key_hash, nonce and the balances (a token the
\* account does not hold has balance 0).
Account(address, pub_key_hash, nonce, balances) ==
    [address |-> address, pub_key_hash |-> pub_key_hash, nonce |-> nonce,
     balances |-> balances]

\* ZkSyncState::nfts: the NFTs minted, by token id, with their creator.
nfts == [t \in {2} |-> [creator_id |-> 0]]

\* ZkSyncState::get_account: the account at the id, as a copy.
get_account(tree, account_id) ==
    IF account_id \in DOMAIN tree THEN tree[account_id] ELSE None

\* ZkSyncState::get_account_by_address: the id and the account of the address.
get_account_by_address(tree, address) ==
    LET ids == {i \in DOMAIN tree : tree[i] # None /\ tree[i][1].address = address}
    IN IF ids = {} THEN None
       ELSE LET i == CHOOSE i \in ids : TRUE IN Some(<<i, tree[i][1]>>)

\* ZkSyncState::insert_account.
insert_account(tree, account_id, account) ==
    [tree EXCEPT ![account_id] = Some(account)]

\* Account::get_balance.
get_balance(account, token) == account.balances[token]

\* Account::sub_balance: the subtraction of unsigned big integers panics
\* when the amount exceeds the balance.
sub_balance(account, token, amount) ==
    IF amount > account.balances[token]
    THEN [panic |-> TRUE, account |-> account]
    ELSE [panic |-> FALSE, account |-> [account EXCEPT !.balances[token] = @ - amount]]

\* ChangeGroup (the transaction): the fields the handler reads. signature
\* is the key hash the signature restores to, or "invalid" when it restores
\* to none.
ChangeGroup(account_id, from, token, amount, fee, nonce, signature) ==
    [account_id |-> account_id, from |-> from, token |-> token,
     amount |-> amount, fee |-> fee, nonce |-> nonce, signature |-> signature]

\* ChangeGroup::verify_signature: Option<(PubKeyHash, TxVersion)>.
verify_signature(tx) ==
    IF tx.signature = "invalid" THEN None ELSE Some(tx.signature)

ChangeGroupOp(tx, account_id) == [tx |-> tx, account_id |-> account_id]

\* Results of the handler's functions.
OpResult(res, op) == [res |-> res, op |-> op]

Applied(res, fee, updates, tree) ==
    [res |-> res, fee |-> fee, updates |-> updates, tree |-> tree]

CollectedFee(token, amount) == [token |-> token, amount |-> amount]

UpdateBalance(account_id, token, old_balance, new_balance, old_nonce, new_nonce) ==
    [account_id |-> account_id, token |-> token,
     old_balance |-> old_balance, new_balance |-> new_balance,
     old_nonce |-> old_nonce, new_nonce |-> new_nonce]

\* The variant compares the account ids before it checks the signature.
ChangeGroup_create_op_IdBeforeSignature(tree, tx) ==
    IF ~(tx.token <= max_fungible_token_id)
    THEN OpResult("InvalidTokenId", None)
    ELSE IF tx.fee # 0 /\ ~(tx.token <= max_processable_token)
    THEN OpResult("InvalidFeeTokenId", None)
    ELSE LET found == get_account_by_address(tree, tx.from)
         IN IF found = None
            THEN OpResult("FromAccountNotFound", None)
            ELSE LET account_id == found[1][1]
                     account == found[1][2]
                     signer == verify_signature(tx)
                 IN IF ~(account.pub_key_hash # DefaultPubKeyHash)
                    THEN OpResult("FromAccountLocked", None)
                    ELSE IF ~(account_id = tx.account_id)
                    THEN OpResult("FromAccountIncorrect", None)
                    ELSE IF signer # None /\ signer[1] # account.pub_key_hash
                    THEN OpResult("InvalidSignature", None)
                    ELSE OpResult("Ok", Some(ChangeGroupOp(tx, account_id)))

\* The variant rejects a signature that does not recover as it rejects one
\* of another key.
ChangeGroup_create_op_RequiresSigner(tree, tx) ==
    IF ~(tx.token <= max_fungible_token_id)
    THEN OpResult("InvalidTokenId", None)
    ELSE IF tx.fee # 0 /\ ~(tx.token <= max_processable_token)
    THEN OpResult("InvalidFeeTokenId", None)
    ELSE LET found == get_account_by_address(tree, tx.from)
         IN IF found = None
            THEN OpResult("FromAccountNotFound", None)
            ELSE LET account_id == found[1][1]
                     account == found[1][2]
                     signer == verify_signature(tx)
                 IN IF ~(account.pub_key_hash # DefaultPubKeyHash)
                    THEN OpResult("FromAccountLocked", None)
                    ELSE IF signer # Some(account.pub_key_hash)
                    THEN OpResult("InvalidSignature", None)
                    ELSE IF ~(account_id = tx.account_id)
                    THEN OpResult("FromAccountIncorrect", None)
                    ELSE OpResult("Ok", Some(ChangeGroupOp(tx, account_id)))

\* <ZkSyncState as TxHandler<ChangeGroup>>::create_op.
ChangeGroup_create_op(tree, tx) ==
    IF ~(tx.token <= max_fungible_token_id)
    THEN OpResult("InvalidTokenId", None)
    ELSE IF tx.fee # 0 /\ ~(tx.token <= max_processable_token)
    THEN OpResult("InvalidFeeTokenId", None)
    ELSE LET found == get_account_by_address(tree, tx.from)
         IN IF found = None
            THEN OpResult("FromAccountNotFound", None)
            ELSE LET account_id == found[1][1]
                     account == found[1][2]
                     signer == verify_signature(tx)
                 IN IF ~(account.pub_key_hash # DefaultPubKeyHash)
                    THEN OpResult("FromAccountLocked", None)
                    ELSE IF signer # None /\ signer[1] # account.pub_key_hash
                    THEN OpResult("InvalidSignature", None)
                    ELSE IF ~(account_id = tx.account_id)
                    THEN OpResult("FromAccountIncorrect", None)
                    ELSE OpResult("Ok", Some(ChangeGroupOp(tx, account_id)))

\* The variant debits the amount and leaves the fee with the account.
ChangeGroup_apply_op_DebitsAmountOnly(tree, op) ==
    IF ~(op.account_id <= max_account_id)
    THEN Applied("FromAccountIncorrect", None, <<>>, tree)
    ELSE IF get_account(tree, op.account_id) = None
    THEN Applied("Panic", None, <<>>, tree)
    ELSE LET from_account == get_account(tree, op.account_id)[1]
             from_old_balance == get_balance(from_account, op.tx.token)
             from_old_nonce == from_account.nonce
         IN IF ~(op.tx.nonce = from_old_nonce)
            THEN Applied("NonceMismatch", None, <<>>, tree)
            ELSE IF ~(from_old_balance >= op.tx.amount + op.tx.fee)
            THEN Applied("InsufficientBalance", None, <<>>, tree)
            ELSE LET debited == sub_balance(from_account, op.tx.token,
                                            op.tx.amount)
                 IN IF debited.panic
                    THEN Applied("Panic", None, <<>>, tree)
                    ELSE LET account == [debited.account EXCEPT !.nonce = @ + 1]
                             from_new_balance == get_balance(account, op.tx.token)
                             from_new_nonce == account.nonce
                         IN Applied("Ok",
                                Some(CollectedFee(op.tx.token, op.tx.fee)),
                                <<UpdateBalance(op.account_id, op.tx.token,
                                                from_old_balance, from_new_balance,
                                                from_old_nonce, from_new_nonce)>>,
                                insert_account(tree, op.account_id, account))

\* The variant debits and leaves the nonce as it was.
ChangeGroup_apply_op_KeepsNonce(tree, op) ==
    IF ~(op.account_id <= max_account_id)
    THEN Applied("FromAccountIncorrect", None, <<>>, tree)
    ELSE IF get_account(tree, op.account_id) = None
    THEN Applied("Panic", None, <<>>, tree)
    ELSE LET from_account == get_account(tree, op.account_id)[1]
             from_old_balance == get_balance(from_account, op.tx.token)
             from_old_nonce == from_account.nonce
         IN IF ~(op.tx.nonce = from_old_nonce)
            THEN Applied("NonceMismatch", None, <<>>, tree)
            ELSE IF ~(from_old_balance >= op.tx.amount + op.tx.fee)
            THEN Applied("InsufficientBalance", None, <<>>, tree)
            ELSE LET debited == sub_balance(from_account, op.tx.token,
                                            op.tx.amount + op.tx.fee)
                 IN IF debited.panic
                    THEN Applied("Panic", None, <<>>, tree)
                    ELSE LET account == debited.account
                             from_new_balance == get_balance(account, op.tx.token)
                             from_new_nonce == account.nonce
                         IN Applied("Ok",
                                Some(CollectedFee(op.tx.token, op.tx.fee)),
                                <<UpdateBalance(op.account_id, op.tx.token,
                                                from_old_balance, from_new_balance,
                                                from_old_nonce, from_new_nonce)>>,
                                insert_account(tree, op.account_id, account))

\* The variant raises the nonce in the tree before it checks the balance.
ChangeGroup_apply_op_NonceBeforeBalance(tree, op) ==
    IF ~(op.account_id <= max_account_id)
    THEN Applied("FromAccountIncorrect", None, <<>>, tree)
    ELSE IF get_account(tree, op.account_id) = None
    THEN Applied("Panic", None, <<>>, tree)
    ELSE LET from_account == get_account(tree, op.account_id)[1]
             from_old_balance == get_balance(from_account, op.tx.token)
             from_old_nonce == from_account.nonce
         IN IF ~(op.tx.nonce = from_old_nonce)
            THEN Applied("NonceMismatch", None, <<>>, tree)
            ELSE IF ~(from_old_balance >= op.tx.amount + op.tx.fee)
            THEN Applied("InsufficientBalance", None, <<>>,
                         insert_account(tree, op.account_id,
                                        [from_account EXCEPT !.nonce = @ + 1]))
            ELSE LET debited == sub_balance(from_account, op.tx.token,
                                            op.tx.amount + op.tx.fee)
                 IN IF debited.panic
                    THEN Applied("Panic", None, <<>>, tree)
                    ELSE LET account == [debited.account EXCEPT !.nonce = @ + 1]
                             from_new_balance == get_balance(account, op.tx.token)
                             from_new_nonce == account.nonce
                         IN Applied("Ok",
                                Some(CollectedFee(op.tx.token, op.tx.fee)),
                                <<UpdateBalance(op.account_id, op.tx.token,
                                                from_old_balance, from_new_balance,
                                                from_old_nonce, from_new_nonce)>>,
                                insert_account(tree, op.account_id, account))

\* The variant has no balance invariant and subtracts on integers that can
\* go below zero.
ChangeGroup_apply_op_Unchecked(tree, op) ==
    IF ~(op.account_id <= max_account_id)
    THEN Applied("FromAccountIncorrect", None, <<>>, tree)
    ELSE IF get_account(tree, op.account_id) = None
    THEN Applied("Panic", None, <<>>, tree)
    ELSE LET from_account == get_account(tree, op.account_id)[1]
             from_old_balance == get_balance(from_account, op.tx.token)
             from_old_nonce == from_account.nonce
         IN IF ~(op.tx.nonce = from_old_nonce)
            THEN Applied("NonceMismatch", None, <<>>, tree)
            ELSE LET account ==
                         [from_account EXCEPT
                            !.balances[op.tx.token] = @ - (op.tx.amount + op.tx.fee),
                            !.nonce = @ + 1]
                     from_new_balance == get_balance(account, op.tx.token)
                     from_new_nonce == account.nonce
                 IN Applied("Ok",
                        Some(CollectedFee(op.tx.token, op.tx.fee)),
                        <<UpdateBalance(op.account_id, op.tx.token,
                                        from_old_balance, from_new_balance,
                                        from_old_nonce, from_new_nonce)>>,
                        insert_account(tree, op.account_id, account))

\* The variant credits the amount to the next account, as the apply_op of
\* a Transfer credits its recipient.
ChangeGroup_apply_op_CreditsNext(tree, op) ==
    IF ~(op.account_id <= max_account_id)
    THEN Applied("FromAccountIncorrect", None, <<>>, tree)
    ELSE IF get_account(tree, op.account_id) = None
    THEN Applied("Panic", None, <<>>, tree)
    ELSE LET from_account == get_account(tree, op.account_id)[1]
             from_old_balance == get_balance(from_account, op.tx.token)
             from_old_nonce == from_account.nonce
             to_id == (op.account_id + 1) % (max_account_id + 1)
         IN IF ~(op.tx.nonce = from_old_nonce)
            THEN Applied("NonceMismatch", None, <<>>, tree)
            ELSE IF ~(from_old_balance >= op.tx.amount + op.tx.fee)
            THEN Applied("InsufficientBalance", None, <<>>, tree)
            ELSE LET account == [from_account EXCEPT
                                   !.balances[op.tx.token] =
                                       @ - (op.tx.amount + op.tx.fee),
                                   !.nonce = @ + 1]
                     debited == insert_account(tree, op.account_id, account)
                     credited ==
                         IF get_account(debited, to_id) = None THEN debited
                         ELSE insert_account(debited, to_id,
                                  [get_account(debited, to_id)[1] EXCEPT
                                     !.balances[op.tx.token] = @ + op.tx.amount])
                 IN Applied("Ok",
                        Some(CollectedFee(op.tx.token, op.tx.fee)),
                        <<UpdateBalance(op.account_id, op.tx.token,
                                        from_old_balance,
                                        get_balance(account, op.tx.token),
                                        from_old_nonce, account.nonce)>>,
                        credited)

\* <ZkSyncState as TxHandler<ChangeGroup>>::apply_op.
ChangeGroup_apply_op(tree, op) ==
    IF ~(op.account_id <= max_account_id)
    THEN Applied("FromAccountIncorrect", None, <<>>, tree)
    ELSE IF get_account(tree, op.account_id) = None
    THEN Applied("Panic", None, <<>>, tree)
    ELSE LET from_account == get_account(tree, op.account_id)[1]
             from_old_balance == get_balance(from_account, op.tx.token)
             from_old_nonce == from_account.nonce
         IN IF ~(op.tx.nonce = from_old_nonce)
            THEN Applied("NonceMismatch", None, <<>>, tree)
            ELSE IF ~(from_old_balance >= op.tx.amount + op.tx.fee)
            THEN Applied("InsufficientBalance", None, <<>>, tree)
            ELSE LET debited == sub_balance(from_account, op.tx.token,
                                            op.tx.amount + op.tx.fee)
                 IN IF debited.panic
                    THEN Applied("Panic", None, <<>>, tree)
                    ELSE LET account == [debited.account EXCEPT !.nonce = @ + 1]
                             from_new_balance == get_balance(account, op.tx.token)
                             from_new_nonce == account.nonce
                         IN Applied("Ok",
                                Some(CollectedFee(op.tx.token, op.tx.fee)),
                                <<UpdateBalance(op.account_id, op.tx.token,
                                                from_old_balance, from_new_balance,
                                                from_old_nonce, from_new_nonce)>>,
                                insert_account(tree, op.account_id, account))

\* <ZkSyncState as TxHandler<ChangeGroup>>::apply_tx.
ChangeGroup_apply_tx(tree, tx) ==
    LET created == ChangeGroup_create_op(tree, tx)
    IN IF created.res # "Ok"
       THEN Applied(created.res, None, <<>>, tree)
       ELSE ChangeGroup_apply_op(tree, created.op[1])

\* FullChangeGroup (the priority operation): the fields the handler reads.
FullChangeGroup(account_id, eth_address, token) ==
    [account_id |-> account_id, eth_address |-> eth_address, token |-> token]

FullChangeGroupOp(priority_op, withdraw_amount, creator_account_id) ==
    [priority_op |-> priority_op, withdraw_amount |-> withdraw_amount,
     creator_account_id |-> creator_account_id]

\* <ZkSyncState as TxHandler<FullChangeGroup>>::create_op.
FullChangeGroup_create_op(tree, priority_op) ==
    IF ~(priority_op.token <= max_token_id)
    THEN OpResult("Panic", None)
    ELSE LET found == get_account(tree, priority_op.account_id)
             account_balance ==
                 IF found # None /\ found[1].address = priority_op.eth_address
                 THEN Some(get_balance(found[1], priority_op.token))
                 ELSE None
         IN IF priority_op.token > max_fungible_token_id
               /\ priority_op.token \in DOMAIN nfts
            THEN OpResult("Ok", Some(FullChangeGroupOp(priority_op, account_balance,
                                        Some(nfts[priority_op.token].creator_id))))
            ELSE OpResult("Ok", Some(FullChangeGroupOp(priority_op, account_balance,
                                        None)))

\* The variant raises the nonce as the handlers of signed transactions do.
FullChangeGroup_apply_op_RaisesNonce(tree, op) ==
    IF op.withdraw_amount = None
    THEN Applied("Ok", None, <<>>, tree)
    ELSE LET amount == op.withdraw_amount[1]
             account_id == op.priority_op.account_id
         IN IF get_account(tree, account_id) = None
            THEN Applied("Panic", None, <<>>, tree)
            ELSE LET account == get_account(tree, account_id)[1]
                     old_balance == get_balance(account, op.priority_op.token)
                     old_nonce == account.nonce
                     debited == sub_balance(account, op.priority_op.token, amount)
                 IN IF debited.panic
                    THEN Applied("Panic", None, <<>>, tree)
                    ELSE LET new_balance == get_balance(debited.account,
                                                        op.priority_op.token)
                             new_nonce == debited.account.nonce + 1
                         IN IF new_balance # 0
                            THEN Applied("Panic", None, <<>>, tree)
                            ELSE Applied("Ok", None,
                                    <<UpdateBalance(account_id, op.priority_op.token,
                                                    old_balance, new_balance,
                                                    old_nonce, new_nonce)>>,
                                    insert_account(tree, account_id,
                                        [debited.account EXCEPT !.nonce = @ + 1]))

\* <ZkSyncState as TxHandler<FullChangeGroup>>::apply_op.
FullChangeGroup_apply_op(tree, op) ==
    IF op.withdraw_amount = None
    THEN Applied("Ok", None, <<>>, tree)
    ELSE LET amount == op.withdraw_amount[1]
             account_id == op.priority_op.account_id
         IN IF get_account(tree, account_id) = None
            THEN Applied("Panic", None, <<>>, tree)
            ELSE LET account == get_account(tree, account_id)[1]
                     old_balance == get_balance(account, op.priority_op.token)
                     old_nonce == account.nonce
                     debited == sub_balance(account, op.priority_op.token, amount)
                 IN IF debited.panic
                    THEN Applied("Panic", None, <<>>, tree)
                    ELSE LET new_balance == get_balance(debited.account,
                                                        op.priority_op.token)
                             new_nonce == debited.account.nonce
                         IN IF new_balance # 0
                            THEN Applied("Panic", None, <<>>, tree)
                            ELSE Applied("Ok", None,
                                    <<UpdateBalance(account_id, op.priority_op.token,
                                                    old_balance, new_balance,
                                                    old_nonce, new_nonce)>>,
                                    insert_account(tree, account_id, debited.account))

\* <ZkSyncState as TxHandler<FullChangeGroup>>::apply_tx.
FullChangeGroup_apply_tx(tree, priority_op) ==
    LET created == FullChangeGroup_create_op(tree, priority_op)
    IN IF created.res # "Ok"
       THEN Applied(created.res, None, <<>>, tree)
       ELSE FullChangeGroup_apply_op(tree, created.op[1])

(***************************************************************************)
(* Transactions: Transfer and ChangeGroup as objects with their canonical  *)
(* bytes, signature, signer cache and check_correctness.                   *)
(***************************************************************************)
\* u128::MAX, scaled down: amounts and fees go one above it.
u128_MAX == 3
BigUints == 0 .. (u128_MAX + 1)

\* The values the packed forms can hold (mantissa times a power of the
\* base), scaled down: 3 is not among them.
PackableAmounts == {0, 1, 2}

is_token_amount_packable(amount) == amount \in PackableAmounts

is_fee_amount_packable(fee) == fee \in PackableAmounts

\* pack_token_amount / pack_fee_amount: the packed form of the largest
\* packable value not above the amount.
pack_amount(amount) ==
    CHOOSE p \in PackableAmounts :
        p <= amount /\ \A q \in PackableAmounts : q <= amount => q <= p

\* TimeRange: valid_from and valid_until; TimeRange::default().
TimeRange(valid_from, valid_until) ==
    [valid_from |-> valid_from, valid_until |-> valid_until]

DefaultTimeRange == TimeRange(0, 1)

TimeRanges == {TimeRange(0, 1), TimeRange(1, 1), TimeRange(1, 0)}

TimeRange_check_correctness(r) == r.valid_from <= r.valid_until

\* Address::zero() and the group ids.
ZeroAddress == "zero"
GroupIds == {0, 1}

\* TxSignature: the key that signed and the bytes it signed;
\* TxSignature::default() is the signature of no key.
TxSignature(key, bytes) == [key |-> key, signed |-> bytes]

DefaultTxSignature == TxSignature("none", <<>>)

sign_musig(private_key, bytes) == TxSignature(private_key, bytes)

\* TxSignature::verify_musig followed by PubKeyHash::from_pubkey: the key
\* hash of the signer when the signature is one over these bytes.
verify_musig(signature, bytes) ==
    IF signature.key # "none" /\ signature.signed = bytes
    THEN Some(signature.key) ELSE None

\* VerifiedSignatureCache.
NotCached == [cached |-> FALSE, signer |-> None]
Cached(signer) == [cached |-> TRUE, signer |-> signer]

\* The ambient configuration parse_env reads.
Config(server_group_id, permissioned) ==
    [server_group_id |-> server_group_id, permissioned |-> permissioned]

Configs == {Config(g, p) : g \in GroupIds, p \in BOOLEAN}

\* The variant writes one group only, as the bytes of a Transfer do.
ChangeGroup_get_bytes_OneGroup(tx) ==
    IF tx.amount > u128_MAX
    THEN [panic |-> TRUE, bytes |-> <<>>]
    ELSE [panic |-> FALSE,
          bytes |-> <<"ChangeGroup", tx.account_id, tx.from, tx.to, tx.token,
                      tx.amount, pack_amount(tx.fee), tx.group1, tx.nonce>>
                    \o (IF tx.time_range # None
                        THEN <<tx.time_range[1].valid_from,
                               tx.time_range[1].valid_until>>
                        ELSE <<>>)]

\* get_bytes of a ChangeGroup: amount.to_u128().unwrap() panics above
\* u128::MAX; fast and the signature are not part of the bytes; the time
\* range is there when the transaction has one.
ChangeGroup_get_bytes(tx) ==
    IF tx.amount > u128_MAX
    THEN [panic |-> TRUE, bytes |-> <<>>]
    ELSE [panic |-> FALSE,
          bytes |-> <<"ChangeGroup", tx.account_id, tx.from, tx.to, tx.token,
                      tx.amount, pack_amount(tx.fee), tx.group1, tx.group2,
                      tx.nonce>>
                    \o (IF tx.time_range # None
                        THEN <<tx.time_range[1].valid_from,
                               tx.time_range[1].valid_until>>
                        ELSE <<>>)]

\* get_bytes of a Transfer: amount and fee packed; a transaction without a
\* time range writes the default one.
Transfer_get_bytes(tx) ==
    LET time_range == IF tx.time_range # None THEN tx.time_range[1]
                      ELSE DefaultTimeRange
    IN [panic |-> FALSE,
        bytes |-> <<"Transfer", "version", tx.account_id, tx.from, tx.to, tx.token,
                    pack_amount(tx.amount), pack_amount(tx.fee), tx.group1,
                    tx.nonce, time_range.valid_from, time_range.valid_until>>]

get_bytes(tx) ==
    IF tx.kind = "ChangeGroup" THEN ChangeGroup_get_bytes(tx)
    ELSE Transfer_get_bytes(tx)

\* verify_signature of both kinds: the cached signer when there is one,
\* else the signer restored from the signature over get_bytes.
tx_verify_signature(tx) ==
    IF tx.cached_signer.cached
    THEN [panic |-> FALSE, signer |-> tx.cached_signer.signer]
    ELSE IF get_bytes(tx).panic
    THEN [panic |-> TRUE, signer |-> None]
    ELSE [panic |-> FALSE,
          signer |-> verify_musig(tx.signature, get_bytes(tx).bytes)]

wipe_signer_cache(tx) == [tx EXCEPT !.cached_signer = NotCached]

\* Transfer::new / ChangeGroup::new: with a signature the signer is cached
\* at once.
tx_new(kind, account_id, from, to, token, amount, fee, group1, group2, nonce, time_range, signature) ==
    LET tx == [kind |-> kind, account_id |-> account_id, from |-> from,
               to |-> to, token |-> token, amount |-> amount, fee |-> fee,
               group1 |-> group1, group2 |-> group2, nonce |-> nonce,
               signature |-> IF signature # None THEN signature[1]
                             ELSE DefaultTxSignature,
               cached_signer |-> NotCached, fast |-> FALSE,
               time_range |-> Some(time_range)]
    IN IF signature = None THEN [panic |-> FALSE, tx |-> tx]
       ELSE IF tx_verify_signature(tx).panic THEN [panic |-> TRUE, tx |-> tx]
       ELSE [panic |-> FALSE,
             tx |-> [tx EXCEPT !.cached_signer =
                                  Cached(tx_verify_signature(tx).signer)]]

CheckResult(res, tx) == [res |-> res, tx |-> tx]

\* The variant takes the signature out of the transaction once it has
\* restored the signer, and caches nothing.
CheckSigner_TakesSignature(tx) ==
    LET signer == tx_verify_signature(tx)
    IN IF signer.panic THEN CheckResult("Panic", tx)
       ELSE LET taken == [tx EXCEPT !.signature = DefaultTxSignature]
            IN IF signer.signer = None
               THEN CheckResult("WrongSignature", taken)
               ELSE CheckResult("Ok", taken)

\* The end of both check_correctness: the signer is restored and cached.
CheckSigner(tx) ==
    LET signer == tx_verify_signature(tx)
    IN IF signer.panic THEN CheckResult("Panic", tx)
       ELSE LET cached == [tx EXCEPT !.cached_signer = Cached(signer.signer)]
            IN IF signer.signer = None
               THEN CheckResult("WrongSignature", cached)
               ELSE CheckResult("Ok", cached)

\* The variant compares the group before it checks the token, as the check
\* of a Transfer does.
ChangeGroup_check_correctness_GroupBeforeToken(tx, config) ==
    LET server_group_id == config.server_group_id
    IN IF tx.amount > u128_MAX THEN CheckResult("WrongAmount", tx)
       ELSE IF tx.fee > u128_MAX THEN CheckResult("WrongFee", tx)
       ELSE IF ~is_fee_amount_packable(tx.fee) THEN CheckResult("FeeNotPackable", tx)
       ELSE IF tx.account_id > max_account_id THEN CheckResult("WrongAccountId", tx)
       ELSE IF tx.group1 # server_group_id THEN CheckResult("WrongGroup", tx)
       ELSE IF tx.token > max_fungible_token_id THEN CheckResult("WrongToken", tx)
       ELSE IF ~(IF tx.time_range # None
                 THEN TimeRange_check_correctness(tx.time_range[1]) ELSE TRUE)
       THEN CheckResult("WrongTimeRange", tx)
       ELSE IF tx.fee # 0 /\ tx.token > max_processable_token
       THEN CheckResult("WrongTokenForPayingFee", tx)
       ELSE CheckSigner(tx)

\* ChangeGroup::check_correctness, under the configuration of the process.
ChangeGroup_check_correctness(tx, config) ==
    LET server_group_id == config.server_group_id
    IN IF tx.amount > u128_MAX THEN CheckResult("WrongAmount", tx)
       ELSE IF tx.fee > u128_MAX THEN CheckResult("WrongFee", tx)
       ELSE IF ~is_fee_amount_packable(tx.fee) THEN CheckResult("FeeNotPackable", tx)
       ELSE IF tx.account_id > max_account_id THEN CheckResult("WrongAccountId", tx)
       ELSE IF tx.token > max_fungible_token_id THEN CheckResult("WrongToken", tx)
       ELSE IF tx.group1 # server_group_id THEN CheckResult("WrongGroup", tx)
       ELSE IF ~(IF tx.time_range # None
                 THEN TimeRange_check_correctness(tx.time_range[1]) ELSE TRUE)
       THEN CheckResult("WrongTimeRange", tx)
       ELSE IF tx.fee # 0 /\ tx.token > max_processable_token
       THEN CheckResult("WrongTokenForPayingFee", tx)
       ELSE CheckSigner(tx)

\* Transfer::check_correctness, under the configuration of the process.
Transfer_check_correctness(tx, sender_autorisation, receiver_autorisation, config) ==
    LET server_group_id == config.server_group_id
        permissioned == config.permissioned
    IN IF permissioned /\ ~sender_autorisation
       THEN CheckResult("NotAllowedSender", tx)
       ELSE IF permissioned /\ ~receiver_autorisation
       THEN CheckResult("NotAllowedDestination", tx)
       ELSE IF tx.amount > u128_MAX THEN CheckResult("WrongAmount", tx)
       ELSE IF tx.fee > u128_MAX THEN CheckResult("WrongFee", tx)
       ELSE IF ~is_token_amount_packable(tx.amount)
       THEN CheckResult("AmountNotPackable", tx)
       ELSE IF ~is_fee_amount_packable(tx.fee) THEN CheckResult("FeeNotPackable", tx)
       ELSE IF tx.account_id > max_account_id THEN CheckResult("WrongAccountId", tx)
       ELSE IF tx.group1 # server_group_id THEN CheckResult("WrongGroup", tx)
       ELSE IF tx.token > max_token_id THEN CheckResult("WrongToken", tx)
       ELSE IF tx.to = ZeroAddress THEN CheckResult("WrongToAddress", tx)
       ELSE IF ~(IF tx.time_range # None
                 THEN TimeRange_check_correctness(tx.time_range[1]) ELSE TRUE)
       THEN CheckResult("WrongTimeRange", tx)
       ELSE IF tx.fee # 0 /\ tx.token > max_processable_token
       THEN CheckResult("WrongTokenForPayingFee", tx)
       ELSE CheckSigner(tx)

\* ZkSyncTx::check_correctness: the check of the variant.
check_correctness(tx, sender_autorisation, receiver_autorisation, config) ==
    IF tx.kind = "Transfer"
    THEN Transfer_check_correctness(tx, sender_autorisation,
                                    receiver_autorisation, config)
    ELSE ChangeGroup_check_correctness(tx, config)

(***************************************************************************)
(* Public data of a ChangeGroupOp: the bytes the state side writes, their  *)
(* parser, and the bits the circuit witness writes.                        *)
(***************************************************************************)
\* Widths of zksync_crypto::params.
TX_TYPE_BIT_WIDTH == 8
ACCOUNT_ID_BIT_WIDTH == 32
TOKEN_BIT_WIDTH == 32
BALANCE_BIT_WIDTH == 128
FEE_EXPONENT_BIT_WIDTH == 5
FEE_MANTISSA_BIT_WIDTH == 11
ETH_ADDRESS_BIT_WIDTH == 160
GROUP_LEN == 2
CHUNK_BIT_WIDTH == 80
CHUNK_BYTES == CHUNK_BIT_WIDTH \div 8

\* ChangeGroupOp::CHUNKS and ChangeGroupOp::OP_CODE.
CHUNKS == 6
OP_CODE == 12

\* to_be_bytes of an unsigned integer of the given size in bytes.
RECURSIVE to_be_bytes(_, _)
to_be_bytes(value, size) ==
    IF size = 0 THEN <<>>
    ELSE to_be_bytes(value \div 256, size - 1) \o <<value % 256>>

\* The number big-endian bytes stand for.
RECURSIVE be_value(_, _)
be_value(digits, base) ==
    IF digits = <<>> THEN 0
    ELSE be_value(SubSeq(digits, 1, Len(digits) - 1), base) * base
         + digits[Len(digits)]

\* FromBytes::from_bytes of u16, u32 and u128: None unless the slice has
\* the size of the type.
from_bytes(bytes, size) ==
    IF Len(bytes) # size THEN None ELSE Some(be_value(bytes, 256))

\* Bits, as booleans: the big-endian bits of a value at a width, the
\* value of big-endian bits, and the two orders.
RECURSIVE be_bits(_, _)
be_bits(value, width) ==
    IF width <= 8
    THEN [i \in 1..width |-> (value \div 2 ^ (width - i)) % 2 = 1]
    ELSE be_bits(value \div 256, width - 8) \o be_bits(value % 256, 8)

bits_value(bits) ==
    be_value([i \in 1..Len(bits) |-> IF bits[i] THEN 1 ELSE 0], 2)

reverse(seq) == [i \in 1..Len(seq) |-> seq[Len(seq) + 1 - i]]

\* BitConvert::into_bytes and BitConvert::from_be_bytes.
into_bytes(bits) ==
    [i \in 1..(Len(bits) \div 8) |-> bits_value(SubSeq(bits, 8 * i - 7, 8 * i))]

RECURSIVE from_be_bytes(_)
from_be_bytes(bytes) ==
    IF bytes = <<>> THEN <<>>
    ELSE be_bits(Head(bytes), 8) \o from_be_bytes(Tail(bytes))

\* Address::as_bytes and Address::from_slice: the 20 bytes of an address.
AddressBook == <<ZeroAddress, "A", "B", "C">>
AddressNumber(address) ==
    (CHOOSE i \in 1..Len(AddressBook) : AddressBook[i] = address) - 1
as_bytes(address) == to_be_bytes(AddressNumber(address), ETH_ADDRESS_BIT_WIDTH \div 8)
from_slice(bytes) == AddressBook[be_value(bytes, 256) + 1]

\* FloatConversions::to_float: the exponent bits then the mantissa bits,
\* each little-endian, of the largest packable value not above the
\* integer; here every packable value has exponent 0.
to_float(integer, exponent_length, mantissa_length) ==
    reverse(be_bits(0, exponent_length))
        \o reverse(be_bits(pack_amount(integer), mantissa_length))

\* pack_fee_amount: the float bits reversed, as bytes.
pack_fee_amount(fee) ==
    into_bytes(reverse(to_float(fee, FEE_EXPONENT_BIT_WIDTH, FEE_MANTISSA_BIT_WIDTH)))

RECURSIVE pow10(_)
pow10(n) == IF n = 0 THEN 1 ELSE 10 * pow10(n - 1)

\* unpack_fee_amount: mantissa times ten to the exponent.
unpack_fee_amount(bytes) ==
    IF Len(bytes) # (FEE_EXPONENT_BIT_WIDTH + FEE_MANTISSA_BIT_WIDTH) \div 8
    THEN None
    ELSE LET bits == from_be_bytes(bytes)
             mantissa == bits_value(SubSeq(bits, 1, FEE_MANTISSA_BIT_WIDTH))
             exponent == bits_value(SubSeq(bits, FEE_MANTISSA_BIT_WIDTH + 1,
                                           Len(bits)))
         IN Some(mantissa * pow10(exponent))

\* Vec::resize(len, value).
resize(data, len, value) ==
    [i \in 1..len |-> IF i <= Len(data) THEN data[i] ELSE value]

\* The variant writes the group before the address.
get_public_data_GroupBeforeAddress(op) ==
    IF op.tx.amount > u128_MAX THEN [panic |-> TRUE, data |-> <<>>]
    ELSE [panic |-> FALSE,
          data |-> resize(<<OP_CODE>>
                            \o to_be_bytes(op.account_id, 4)
                            \o to_be_bytes(op.tx.token, 4)
                            \o to_be_bytes(op.tx.amount, 16)
                            \o pack_fee_amount(op.tx.fee)
                            \o to_be_bytes(op.tx.group2, 2)
                            \o as_bytes(op.tx.to),
                          CHUNKS * CHUNK_BYTES, 0)]

\* ChangeGroupOp::get_public_data: account id and token are u32, the
\* amount is u128 (to_u128().unwrap() panics above u128::MAX), the group
\* is u16.
get_public_data(op) ==
    IF op.tx.amount > u128_MAX THEN [panic |-> TRUE, data |-> <<>>]
    ELSE [panic |-> FALSE,
          data |-> resize(<<OP_CODE>>
                            \o to_be_bytes(op.account_id, 4)
                            \o to_be_bytes(op.tx.token, 4)
                            \o to_be_bytes(op.tx.amount, 16)
                            \o pack_fee_amount(op.tx.fee)
                            \o as_bytes(op.tx.to)
                            \o to_be_bytes(op.tx.group2, 2),
                          CHUNKS * CHUNK_BYTES, 0)]

ParseResult(res, op) == [res |-> res, op |-> op]

\* ChangeGroupOp::parse_pub_data.
parse_pub_data(bytes, token_bit_width, chunk_bytes) ==
    IF Len(bytes) # CHUNKS * chunk_bytes
    THEN ParseResult("PubdataSizeMismatch", None)
    ELSE
    LET account_offset == 1
        token_id_offset == account_offset + ACCOUNT_ID_BIT_WIDTH \div 8
        amount_offset == token_id_offset + token_bit_width \div 8
        fee_offset == amount_offset + BALANCE_BIT_WIDTH \div 8
        eth_address_offset ==
            fee_offset + (FEE_EXPONENT_BIT_WIDTH + FEE_MANTISSA_BIT_WIDTH) \div 8
        group_offset == eth_address_offset + ETH_ADDRESS_BIT_WIDTH \div 8
        \* bytes[offset .. offset + len], the offsets counted from 0
        slice(offset, len) == SubSeq(bytes, offset + 1, offset + len)
        account_id == from_bytes(slice(account_offset, ACCOUNT_ID_BIT_WIDTH \div 8), 4)
        token == from_bytes(slice(token_id_offset, token_bit_width \div 8), 4)
        amount == from_bytes(slice(amount_offset, BALANCE_BIT_WIDTH \div 8), 16)
        fee == unpack_fee_amount(
                   slice(fee_offset,
                         (FEE_EXPONENT_BIT_WIDTH + FEE_MANTISSA_BIT_WIDTH) \div 8))
        group2 == from_bytes(slice(group_offset, GROUP_LEN), 2)
    IN IF account_id = None THEN ParseResult("CannotGetAccountId", None)
       ELSE IF token = None THEN ParseResult("CannotGetTokenId", None)
       ELSE IF amount = None THEN ParseResult("CannotGetAmount", None)
       ELSE IF fee = None THEN ParseResult("CannotGetFee", None)
       ELSE IF group2 = None THEN ParseResult("CannotGetGroupId", None)
       ELSE ParseResult("Ok",
              Some(ChangeGroupOp(
                     tx_new("ChangeGroup", account_id[1], ZeroAddress,
                            from_slice(slice(eth_address_offset,
                                             ETH_ADDRESS_BIT_WIDTH \div 8)),
                            token[1], amount[1], fee[1], 0, group2[1], 0,
                            DefaultTimeRange, None).tx,
                     account_id[1])))

from_public_data(bytes) == parse_pub_data(bytes, TOKEN_BIT_WIDTH, CHUNK_BYTES)

\* fr_from and eth_address_to_fr: the field element of a number, of an
\* address.
fr_from(x) == x
eth_address_to_fr(address) == AddressNumber(address)

\* le_bit_vector_into_field_element.
le_bit_vector_into_field_element(bits) == bits_value(reverse(bits))

\* ChangeGroupWitness::apply_tx with apply_data, without the account tree:
\* the fields of the witness the public data is written from.
ChangeGroupWitness_apply_tx(change_group) ==
    IF change_group.tx.amount > u128_MAX \/ change_group.tx.fee > u128_MAX
    THEN [panic |-> TRUE, witness |-> None]
    ELSE
    LET time_range == IF change_group.tx.time_range # None
                      THEN change_group.tx.time_range[1] ELSE DefaultTimeRange
        amount_bits == to_float(change_group.tx.amount, 5, 35)
        fee_bits == to_float(change_group.tx.fee, FEE_EXPONENT_BIT_WIDTH,
                             FEE_MANTISSA_BIT_WIDTH)
    IN [panic |-> FALSE,
        witness |-> Some(
          [before |-> [address |-> fr_from(change_group.account_id),
                       token |-> fr_from(change_group.tx.token)],
           args |-> [eth_address |-> eth_address_to_fr(change_group.tx.to),
                     amount_packed |-> le_bit_vector_into_field_element(amount_bits),
                     full_amount |-> fr_from(change_group.tx.amount),
                     fee |-> le_bit_vector_into_field_element(fee_bits),
                     group |-> fr_from(change_group.tx.group1),
                     group2 |-> fr_from(change_group.tx.group2),
                     valid_from |-> fr_from(time_range.valid_from),
                     valid_until |-> fr_from(time_range.valid_until)],
           tx_type |-> fr_from(OP_CODE)])]

\* append_be_fixed_width and resize_grow_only.
append_be_fixed_width(bits, x, width) == bits \o be_bits(x, width)

resize_grow_only(bits, len, value) ==
    IF Len(bits) >= len THEN bits ELSE resize(bits, len, value)

\* The variant writes the packed amount, at its packed width, as the
\* witness of a Transfer does.
ChangeGroupWitness_get_pubdata_PackedAmount(w) ==
    LET b1 == append_be_fixed_width(<<>>, w.tx_type, TX_TYPE_BIT_WIDTH)
        b2 == append_be_fixed_width(b1, w.before.address, ACCOUNT_ID_BIT_WIDTH)
        b3 == append_be_fixed_width(b2, w.before.token, TOKEN_BIT_WIDTH)
        b4 == append_be_fixed_width(b3, w.args.amount_packed, 40)
        b5 == append_be_fixed_width(b4, w.args.fee,
                  FEE_MANTISSA_BIT_WIDTH + FEE_EXPONENT_BIT_WIDTH)
        b6 == append_be_fixed_width(b5, w.args.eth_address, ETH_ADDRESS_BIT_WIDTH)
        b7 == append_be_fixed_width(b6, w.args.group2, GROUP_LEN * 8)
    IN resize_grow_only(b7, CHUNKS * CHUNK_BIT_WIDTH, FALSE)

\* ChangeGroupWitness::get_pubdata.
ChangeGroupWitness_get_pubdata(w) ==
    LET b1 == append_be_fixed_width(<<>>, w.tx_type, TX_TYPE_BIT_WIDTH)
        b2 == append_be_fixed_width(b1, w.before.address, ACCOUNT_ID_BIT_WIDTH)
        b3 == append_be_fixed_width(b2, w.before.token, TOKEN_BIT_WIDTH)
        b4 == append_be_fixed_width(b3, w.args.full_amount, BALANCE_BIT_WIDTH)
        b5 == append_be_fixed_width(b4, w.args.fee,
                  FEE_MANTISSA_BIT_WIDTH + FEE_EXPONENT_BIT_WIDTH)
        b6 == append_be_fixed_width(b5, w.args.eth_address, ETH_ADDRESS_BIT_WIDTH)
        b7 == append_be_fixed_width(b6, w.args.group2, GROUP_LEN * 8)
    IN resize_grow_only(b7, CHUNKS * CHUNK_BIT_WIDTH, FALSE)

(***************************************************************************)
(* Ethereum sign messages. A String is the sequence of the pieces pushed   *)
(* into it; '\n' is a piece of its own.                                    *)
(***************************************************************************)
Token(symbol, decimals) == [symbol |-> symbol, decimals |-> decimals]

\* format_units(value, decimals) and the Display of a number.
format_units(value, decimals) ==
    <<ToString(value), " / 10^", ToString(decimals)>>

NewLine == <<"\n">>

\* The transactions a message is asked of: the fields the messages show.
MessageTx(kind, to, amount, fee, group1, group2, nonce) ==
    [kind |-> kind, to |-> to, amount |-> amount, fee |-> fee,
     group1 |-> group1, group2 |-> group2, nonce |-> nonce,
     content_hash |-> "H256"]

FeeLine(tx, token_symbol, decimals) ==
    <<"Fee: ">> \o format_units(tx.fee, decimals) \o <<" ", token_symbol>>

\* utils::ethereum_sign_message_part, which Transfer calls with its name
\* and its group.
ethereum_sign_message_part(transaction, token_symbol, decimals, tx) ==
    LET message == IF tx.amount # 0
                   THEN <<transaction, " ">> \o format_units(tx.amount, decimals)
                        \o <<" ", token_symbol, " to: ", tx.to, " on group: ",
                             ToString(tx.group1)>>
                   ELSE <<>>
    IN IF tx.fee # 0
       THEN message \o (IF message # <<>> THEN NewLine ELSE <<>>)
                    \o FeeLine(tx, token_symbol, decimals)
       ELSE message

\* ChangeGroup::get_ethereum_sign_message_part.
ChangeGroup_get_ethereum_sign_message_part(tx, token_symbol, decimals) ==
    LET message == IF tx.amount # 0
                   THEN <<"ChangeGroup ">> \o format_units(tx.amount, decimals)
                        \o <<" ", token_symbol, " to: ", tx.to, " from group: ",
                             ToString(tx.group1), " to group: ",
                             ToString(tx.group2)>>
                   ELSE <<>>
    IN IF tx.fee # 0
       THEN message \o (IF message # <<>> THEN NewLine ELSE <<>>)
                    \o FeeLine(tx, token_symbol, decimals)
       ELSE message

\* MintNFT::get_ethereum_sign_message_part.
MintNFT_get_ethereum_sign_message_part(tx, token_symbol, decimals) ==
    LET message == <<"MintNFT ", tx.content_hash, " for: ", tx.to,
                     ", on group: ", ToString(tx.group1)>>
    IN IF tx.fee # 0
       THEN message \o NewLine \o FeeLine(tx, token_symbol, decimals)
       ELSE message

\* get_ethereum_sign_message_part of the three kinds.
tx_get_ethereum_sign_message_part(tx, token_symbol, decimals) ==
    CASE tx.kind = "Transfer" ->
             ethereum_sign_message_part("Transfer", token_symbol, decimals, tx)
      [] tx.kind = "ChangeGroup" ->
             ChangeGroup_get_ethereum_sign_message_part(tx, token_symbol, decimals)
      [] tx.kind = "MintNFT" ->
             MintNFT_get_ethereum_sign_message_part(tx, token_symbol, decimals)

\* The variant pushes the newline whether or not the part is empty.
tx_get_ethereum_sign_message_AlwaysNewLine(tx, token_symbol, decimals) ==
    tx_get_ethereum_sign_message_part(tx, token_symbol, decimals)
        \o NewLine \o <<"Nonce: ", ToString(tx.nonce)>>

\* Transfer::, ChangeGroup:: and MintNFT::get_ethereum_sign_message: the
\* same lines in the three.
tx_get_ethereum_sign_message(tx, token_symbol, decimals) ==
    LET message == tx_get_ethereum_sign_message_part(tx, token_symbol, decimals)
    IN message \o (IF message # <<>> THEN NewLine ELSE <<>>)
               \o <<"Nonce: ", ToString(tx.nonce)>>

\* ZkSyncTx::get_ethereum_sign_message and
\* ZkSyncTx::get_ethereum_sign_message_part; Close has neither.
ZkSyncTx_get_ethereum_sign_message(tx, token) ==
    IF tx.kind \in {"Transfer", "MintNFT", "ChangeGroup"}
    THEN Some(tx_get_ethereum_sign_message(tx, token.symbol, token.decimals))
    ELSE None

ZkSyncTx_get_ethereum_sign_message_part(tx, token) ==
    IF tx.kind \in {"Transfer", "MintNFT", "ChangeGroup"}
    THEN Some(tx_get_ethereum_sign_message_part(tx, token.symbol, token.decimals))
    ELSE None

(***************************************************************************)
(* State.                                                                  *)
(***************************************************************************)
VARIABLES
    bSenders,     \* batch matching: the senders slice
    bSignatures,  \* batch matching: batch_sign_data.signatures
    bst,          \* batch matching: the loop state
    requests,     \* the VerifySignatureRequests created so far, by id: their data
    input,        \* the mpsc queue of the checker: ids of the requests in it
    pc,           \* per request: where it is (see below)
    receiver,     \* per request: the caller's oneshot receiver, "open" or "dropped"
    eth,          \* per request: result of verify_eth_signature, "NotRun" before
    native,       \* per request: result of verify_tx_correctness, "NotRun" before
    calls,        \* per request: the log of the calls its worker made
    resp,         \* per request: the result verify returned, "None" before
    delivered,    \* per request: what was sent on its reply channel
    accounts,     \* state handler: the account tree, by account id
    pending,      \* state handler: the operation the caller holds
    last,         \* state handler: the last call, its argument and its result
    applied,      \* state handler: (account id, nonce) of the ChangeGroup
                  \* operations applied with success, in order
    ncalls,       \* state handler: the number of calls made
    txObject,     \* transactions: the transaction object, when there is one
    config,       \* transactions: the configuration of the process
    txcall,       \* transactions: the last call on the transaction
    nedits,       \* transactions: the number of changes made to it
    opObject,     \* public data: the ChangeGroupOp, when there is one
    pubdata,      \* public data: what was written from and parsed for it
    builder,      \* SDK: the ChangeGroupBuilder, when there is one
    wallet,       \* SDK: the wallet of the builder: its provider and signer
    sdkcall       \* SDK: the last call on the builder and its result

batchVars == <<bSenders, bSignatures, bst>>
serviceVars == <<requests, input, pc, receiver, eth, native, calls, resp, delivered>>
stateVars == <<accounts, pending, last, applied, ncalls>>
txVars == <<txObject, config, txcall, nedits>>
pubVars == <<opObject, pubdata>>
sdkVars == <<builder, wallet, sdkcall>>
vars == <<bSenders, bSignatures, bst, requests, input, pc, receiver, eth, native,
          calls, resp, delivered, accounts, pending, last, applied, ncalls,
          txObject, config, txcall, nedits, opObject, pubdata, builder, wallet,
          sdkcall>>

\* pc: "Queued" (in the input queue), "AuthenticatingBaseChain" (worker
\* spawned, in verify_eth_signature), "AuthenticatingNative" (in
\* verify_tx_correctness), "Replying" (verify returned), "Done" (worker
\* ended), "Panicked" (worker ended by a panic; its reply sender is dropped).
Ids == DOMAIN requests

NoService ==
    /\ requests = <<>>
    /\ input = <<>>
    /\ pc = <<>>
    /\ receiver = <<>>
    /\ eth = <<>>
    /\ native = <<>>
    /\ calls = <<>>
    /\ resp = <<>>
    /\ delivered = <<>>

NoBatch ==
    /\ bSenders = <<>>
    /\ bSignatures = <<>>
    /\ bst = BatchStart

NoCall ==
    [call |-> "none", kind |-> "none", arg |-> None, res |-> "none",
     op |-> None, fee |-> None, updates |-> <<>>]

Created(kind, arg, r) ==
    [call |-> "create_op", kind |-> kind, arg |-> arg, res |-> r.res,
     op |-> r.op, fee |-> None, updates |-> <<>>]

Returned(call, kind, arg, a) ==
    [call |-> call, kind |-> kind, arg |-> arg, res |-> a.res,
     op |-> None, fee |-> a.fee, updates |-> a.updates]

NoState ==
    /\ accounts = <<>>
    /\ pending = None
    /\ last = NoCall
    /\ applied = <<>>
    /\ ncalls = 0

NoTxCall ==
    [call |-> "none", n |-> 0, sender |-> FALSE, receiver |-> FALSE,
     res |-> "none", before |-> None]

NoPubdata == [state |-> None, parsed |-> None, witness |-> None]

NoTx ==
    /\ txObject = None
    /\ config = None
    /\ txcall = NoTxCall
    /\ nedits = 0
    /\ opObject = None
    /\ pubdata = NoPubdata

NoSdkCall == [call |-> "none", before |-> None, result |-> None]

NoSdk ==
    /\ builder = None
    /\ wallet = None
    /\ sdkcall = NoSdkCall

(***************************************************************************)
(* Specification of batch matching alone: every senders list and every    *)
(* signature list within the bounds, the loop run one iteration at a time. *)
(***************************************************************************)
InitBatch ==
    /\ NoSdk
    /\ bSenders \in SeqsUpTo(Addresses, MaxSenders)
    /\ bSignatures \in SeqsUpTo(Signatures, MaxSignatures)
    /\ bst = BatchStart
    /\ NoService
    /\ NoState
    /\ NoTx

BatchLoop ==
    /\ bst.res = "Running"
    /\ bst' = BatchNext(bst, bSenders, bSignatures)
    /\ UNCHANGED <<bSenders, bSignatures>>
    /\ UNCHANGED <<serviceVars, stateVars, txVars, pubVars, sdkVars>>

NextBatch == BatchLoop

SpecBatch == InitBatch /\ [][NextBatch]_vars

(***************************************************************************)
(* The service: start_sign_checker.                                        *)
(***************************************************************************)
\* A caller creates a request with its own oneshot channel and puts it in the
\* input queue.
Submit(data) ==
    /\ Len(requests) < MaxRequests
    /\ requests' = Append(requests, data)
    /\ input' = Append(input, Len(requests) + 1)
    /\ pc' = Append(pc, "Queued")
    /\ receiver' = Append(receiver, "open")
    /\ eth' = Append(eth, "NotRun")
    /\ native' = Append(native, "NotRun")
    /\ calls' = Append(calls, <<>>)
    /\ resp' = Append(resp, "None")
    /\ delivered' = Append(delivered, <<>>)
    /\ UNCHANGED <<batchVars, stateVars, txVars, pubVars, sdkVars>>

\* checker_routine awaits only input.next(): the dispatcher takes a step as
\* soon as the queue holds a request. The variant awaits each verification
\* where the code spawns it.
DispatcherReady_AwaitsWorker ==
    /\ input # <<>>
    /\ \A r \in DOMAIN pc : pc[r] \in {"Queued", "Done", "Panicked"}

DispatcherReady == input # <<>>

\* checker_routine: input.next() yields a request and a worker is spawned for
\* it; the dispatcher goes back to the queue.
Dispatch ==
    /\ DispatcherReady
    /\ pc' = [pc EXCEPT ![Head(input)] = "AuthenticatingBaseChain"]
    /\ input' = Tail(input)
    /\ UNCHANGED <<requests, receiver, eth, native, calls, resp, delivered>>
    /\ UNCHANGED <<batchVars, stateVars, txVars, pubVars, sdkVars>>

\* The worker of request r runs verify_eth_signature.
EthStage(r) ==
    /\ pc[r] = "AuthenticatingBaseChain"
    /\ LET e == verify_eth_signature(requests[r])
       IN /\ eth' = [eth EXCEPT ![r] = e.res]
          /\ calls' = [calls EXCEPT ![r] = @ \o e.log]
          /\ pc' = [pc EXCEPT ![r] = AfterEthStage(e.res)]
          /\ resp' = [resp EXCEPT ![r] =
                        IF AfterEthStage(e.res) = "Replying" THEN e.res ELSE @]
    /\ UNCHANGED <<requests, input, receiver, native, delivered>>
    /\ UNCHANGED <<batchVars, stateVars, txVars, pubVars, sdkVars>>

\* The worker of request r runs verify_tx_correctness, and verify returns:
\* the error of the stage, or Ok(Self(tx_variant)).
NativeStage(r) ==
    /\ pc[r] = "AuthenticatingNative"
    /\ \E storage \in StorageStates :
         LET n == verify_tx_correctness(requests[r], storage)
         IN /\ native' = [native EXCEPT ![r] = n.res]
            /\ calls' = [calls EXCEPT ![r] = @ \o n.log]
            /\ pc' = [pc EXCEPT ![r] = AfterNativeStage(n.res)]
            /\ resp' = [resp EXCEPT ![r] =
                          IF AfterNativeStage(n.res) = "Replying"
                          THEN (IF n.res = "Ok" THEN "VerifiedTx" ELSE n.res) ELSE @]
    /\ UNCHANGED <<requests, input, receiver, eth, delivered>>
    /\ UNCHANGED <<batchVars, stateVars, txVars, pubVars, sdkVars>>

\* The variant unwraps the result of send: with the receiver gone the worker
\* panics.
Reply_Unwrap(r) ==
    /\ pc[r] = "Replying"
    /\ delivered' = [delivered EXCEPT ![r] =
                        IF receiver[r] = "open"
                        THEN Append(@, [from |-> r, result |-> resp[r]]) ELSE @]
    /\ pc' = [pc EXCEPT ![r] = IF receiver[r] = "open" THEN "Done" ELSE "Panicked"]
    /\ UNCHANGED <<requests, input, receiver, eth, native, calls, resp>>
    /\ UNCHANGED <<batchVars, stateVars, txVars, pubVars, sdkVars>>

\* response.send(resp).unwrap_or_default(): the result goes to the request's
\* own channel when its receiver is still there, and nowhere otherwise.
Reply(r) ==
    /\ pc[r] = "Replying"
    /\ delivered' = [delivered EXCEPT ![r] =
                        IF receiver[r] = "open"
                        THEN Append(@, [from |-> r, result |-> resp[r]]) ELSE @]
    /\ pc' = [pc EXCEPT ![r] = "Done"]
    /\ UNCHANGED <<requests, input, receiver, eth, native, calls, resp>>
    /\ UNCHANGED <<batchVars, stateVars, txVars, pubVars, sdkVars>>

\* The caller drops its receiver before a reply arrived.
DropReceiver(r) ==
    /\ receiver[r] = "open"
    /\ delivered[r] = <<>>
    /\ pc[r] \notin {"Done", "Panicked"}
    /\ receiver' = [receiver EXCEPT ![r] = "dropped"]
    /\ UNCHANGED <<requests, input, pc, eth, native, calls, resp, delivered>>
    /\ UNCHANGED <<batchVars, stateVars, txVars, pubVars, sdkVars>>

\* The requests of the service specification.
ServiceRequests ==
    {RequestData("Tx", <<t>>, <<"A">>, <<TokenId>>, None, None, TRUE) :
        t \in CommonTransactions}

Init ==
    /\ NoSdk
    /\ NoBatch
    /\ NoService
    /\ NoState
    /\ NoTx

Next ==
    \/ \E data \in ServiceRequests : Submit(data)
    \/ Dispatch
    \/ \E r \in Ids : EthStage(r)
    \/ \E r \in Ids : NativeStage(r)
    \/ \E r \in Ids : Reply(r)
    \/ \E r \in Ids : DropReceiver(r)

Spec == Init /\ [][Next]_vars

\* The service when the worker of the first request may stay in an oracle
\* call forever: the runtime keeps polling the dispatcher and every spawned
\* task that can go on, and nothing is promised about the first worker.
LaterIds == 2 .. MaxRequests

Scheduled ==
    /\ WF_vars(Dispatch)
    /\ \A r \in LaterIds :
          /\ WF_vars(r \in Ids /\ EthStage(r))
          /\ WF_vars(r \in Ids /\ NativeStage(r))
          /\ WF_vars(r \in Ids /\ Reply(r))

\* Its requests: one verified without the oracle, one rejected, one that
\* asks the oracle and is verified, one whose oracle call fails.
HungRequests ==
    {RequestData("Tx", <<t>>, <<"A">>, <<TokenId>>, None, None, TRUE) :
        t \in {PlainTransfer,
               [PlainTransfer EXCEPT !.correct = FALSE],
               SignedZkSyncTx("ChangeGroup", FALSE, "true", None, TRUE),
               SignedZkSyncTx("ChangeGroup", FALSE, "Err", None, TRUE)}}

NextHung ==
    \/ \E data \in HungRequests : Submit(data)
    \/ Dispatch
    \/ \E r \in Ids : EthStage(r)
    \/ \E r \in Ids : NativeStage(r)
    \/ \E r \in Ids : Reply(r)
    \/ \E r \in Ids : DropReceiver(r)

SpecHung == Init /\ [][NextHung]_vars /\ Scheduled

(***************************************************************************)
(* Specification of one verification: one request, any request within the  *)
(* bounds, already in the queue.                                           *)
(***************************************************************************)
InitVerify ==
    /\ NoSdk
    /\ NoBatch
    /\ NoState
    /\ NoTx
    /\ requests \in {<<data>> : data \in Requests}
    /\ input = <<1>>
    /\ pc = <<"Queued">>
    /\ receiver = <<"open">>
    /\ eth = <<"NotRun">>
    /\ native = <<"NotRun">>
    /\ calls = << <<>> >>
    /\ resp = <<"None">>
    /\ delivered = << <<>> >>

NextVerify ==
    \/ Dispatch
    \/ \E r \in Ids : EthStage(r)
    \/ \E r \in Ids : NativeStage(r)
    \/ \E r \in Ids : Reply(r)
    \/ \E r \in Ids : DropReceiver(r)

SpecVerify == InitVerify /\ [][NextVerify]_vars

(***************************************************************************)
(* The state transition handler called in sequence on one account tree.    *)
(***************************************************************************)
\* The account tree at the start: account 0 of address "A" with key hash
\* "pkA", account 1 of address "B" whose key hash may be the default one,
\* no account at id 2, and no account of address "C".
Balances(fungible, nft) ==
    [t \in TokenIds |-> IF t = 0 THEN fungible ELSE IF t = 2 THEN nft ELSE 0]

InitialTrees ==
    {[i \in 0 .. max_account_id |->
        IF i = 0 THEN Some(Account("A", "pkA", 0, Balances(b0, 1)))
        ELSE IF i = 1 THEN Some(Account("B", pk1, 0, Balances(b1, 0)))
        ELSE None] :
     b0 \in 0 .. MaxBalance, b1 \in {0, MaxBalance},
     pk1 \in {DefaultPubKeyHash, "pkB"}}

\* The calls of the sequence: ChangeGroup transactions of account 0 with
\* every amount and fee of the bounds at nonce 0, two at nonce 1, one of
\* account 1, and one transaction for each invariant of create_op.
StateChangeGroups ==
    {ChangeGroup(0, "A", 0, amount, fee, 0, "pkA") :
        amount \in 0 .. MaxAmount, fee \in 0 .. MaxFee}
    \cup {ChangeGroup(0, "A", 0, 1, 0, 1, "pkA"),
          ChangeGroup(0, "A", 0, MaxAmount, MaxFee, 1, "pkA"),
          ChangeGroup(1, "B", 0, 1, 0, 0, "pkB"),
          ChangeGroup(0, "A", 2, 1, 0, 0, "pkA"),
          ChangeGroup(0, "A", 1, 1, 1, 0, "pkA"),
          ChangeGroup(0, "C", 0, 1, 0, 0, "pkA"),
          ChangeGroup(0, "A", 0, 1, 0, 0, "pkB"),
          ChangeGroup(0, "A", 0, 1, 0, 0, "invalid"),
          ChangeGroup(1, "A", 0, 1, 0, 0, "pkA")}

StateFullChangeGroups ==
    {FullChangeGroup(0, "A", 0), FullChangeGroup(0, "A", 2),
     FullChangeGroup(0, "A", 3), FullChangeGroup(0, "B", 0),
     FullChangeGroup(1, "B", 0), FullChangeGroup(2, "A", 0),
     FullChangeGroup(0, "A", max_token_id + 1)}

\* ChangeGroup operations that did not come from create_op on this tree
\* (restored from public data): of an account id above the maximum, and of
\* an id without an account.
RestoredChangeGroupOps ==
    {ChangeGroupOp(ChangeGroup(a, "A", 0, 1, 0, 0, "pkA"), a) :
        a \in {max_account_id, max_account_id + 1}}

InitState ==
    /\ NoSdk
    /\ NoBatch
    /\ NoService
    /\ NoTx
    /\ accounts \in InitialTrees
    /\ pending = None
    /\ last = NoCall
    /\ applied = <<>>
    /\ ncalls = 0

\* The handler is called by one thread, which a panic ends.
CanCall == ncalls < MaxCalls /\ last.res # "Panic"

\* The variant of create_op debits the account when it builds the operation.
CreateChangeGroupOp_Debits(tx) ==
    /\ CanCall
    /\ LET r == ChangeGroup_create_op(accounts, tx)
       IN /\ last' = Created("ChangeGroup", tx, r)
          /\ pending' = IF r.res = "Ok"
                        THEN Some([kind |-> "ChangeGroup", op |-> r.op[1]])
                        ELSE pending
          /\ accounts' = IF r.res = "Ok"
                         THEN ChangeGroup_apply_op(accounts, r.op[1]).tree
                         ELSE accounts
    /\ ncalls' = ncalls + 1
    /\ UNCHANGED applied
    /\ UNCHANGED <<batchVars, serviceVars, txVars, pubVars, sdkVars>>

\* create_op(&self, tx): the caller keeps the operation returned.
CreateChangeGroupOp(tx) ==
    /\ CanCall
    /\ LET r == ChangeGroup_create_op(accounts, tx)
       IN /\ last' = Created("ChangeGroup", tx, r)
          /\ pending' = IF r.res = "Ok"
                        THEN Some([kind |-> "ChangeGroup", op |-> r.op[1]])
                        ELSE pending
    /\ ncalls' = ncalls + 1
    /\ UNCHANGED <<accounts, applied>>
    /\ UNCHANGED <<batchVars, serviceVars, txVars, pubVars, sdkVars>>

CreateFullChangeGroupOp(priority_op) ==
    /\ CanCall
    /\ LET r == FullChangeGroup_create_op(accounts, priority_op)
       IN /\ last' = Created("FullChangeGroup", priority_op, r)
          /\ pending' = IF r.res = "Ok"
                        THEN Some([kind |-> "FullChangeGroup", op |-> r.op[1]])
                        ELSE pending
    /\ ncalls' = ncalls + 1
    /\ UNCHANGED <<accounts, applied>>
    /\ UNCHANGED <<batchVars, serviceVars, txVars, pubVars, sdkVars>>

\* apply_op(&mut self, &op) of a ChangeGroupOp.
ApplyChangeGroupOp(op) ==
    /\ CanCall
    /\ LET a == ChangeGroup_apply_op(accounts, op)
       IN /\ accounts' = a.tree
          /\ last' = Returned("apply_op", "ChangeGroup", op, a)
          /\ applied' = IF a.res = "Ok"
                        THEN Append(applied, <<op.account_id, op.tx.nonce>>)
                        ELSE applied
    /\ ncalls' = ncalls + 1
    /\ UNCHANGED pending
    /\ UNCHANGED <<batchVars, serviceVars, txVars, pubVars, sdkVars>>

\* apply_op(&mut self, &op) of a FullChangeGroupOp.
ApplyFullChangeGroupOp(op) ==
    /\ CanCall
    /\ LET a == FullChangeGroup_apply_op(accounts, op)
       IN /\ accounts' = a.tree
          /\ last' = Returned("apply_op", "FullChangeGroup", op, a)
    /\ ncalls' = ncalls + 1
    /\ UNCHANGED <<pending, applied>>
    /\ UNCHANGED <<batchVars, serviceVars, txVars, pubVars, sdkVars>>

\* The caller applies the operation it holds; it holds it afterwards too.
ApplyPending ==
    /\ pending # None
    /\ IF pending[1].kind = "ChangeGroup"
       THEN ApplyChangeGroupOp(pending[1].op)
       ELSE ApplyFullChangeGroupOp(pending[1].op)

\* apply_tx(&mut self, tx).
ApplyChangeGroupTx(tx) ==
    /\ CanCall
    /\ LET a == ChangeGroup_apply_tx(accounts, tx)
       IN /\ accounts' = a.tree
          /\ last' = Returned("apply_tx", "ChangeGroup", tx, a)
          /\ applied' = IF a.res = "Ok"
                        THEN Append(applied,
                                    <<a.updates[1].account_id, tx.nonce>>)
                        ELSE applied
    /\ ncalls' = ncalls + 1
    /\ UNCHANGED pending
    /\ UNCHANGED <<batchVars, serviceVars, txVars, pubVars, sdkVars>>

ApplyFullChangeGroupTx(priority_op) ==
    /\ CanCall
    /\ LET a == FullChangeGroup_apply_tx(accounts, priority_op)
       IN /\ accounts' = a.tree
          /\ last' = Returned("apply_tx", "FullChangeGroup", priority_op, a)
    /\ ncalls' = ncalls + 1
    /\ UNCHANGED <<pending, applied>>
    /\ UNCHANGED <<batchVars, serviceVars, txVars, pubVars, sdkVars>>

NextState ==
    \/ \E tx \in StateChangeGroups : CreateChangeGroupOp(tx)
    \/ \E priority_op \in StateFullChangeGroups : CreateFullChangeGroupOp(priority_op)
    \/ ApplyPending
    \/ \E op \in RestoredChangeGroupOps : ApplyChangeGroupOp(op)
    \/ \E tx \in StateChangeGroups : ApplyChangeGroupTx(tx)
    \/ \E priority_op \in StateFullChangeGroups : ApplyFullChangeGroupTx(priority_op)

SpecState == InitState /\ [][NextState]_vars

(***************************************************************************)
(* create_op of a ChangeGroup alone: one call, on every tree of the start  *)
(* and every transaction within the bounds.                                *)
(***************************************************************************)
ChangeGroups ==
    {ChangeGroup(account_id, from, token, 1, fee, 0, signature) :
        account_id \in 0 .. max_account_id, from \in Addresses,
        token \in TokenIds, fee \in 0 .. MaxFee,
        signature \in {"pkA", "pkB", "invalid"}}

CreateFirst(tx) == ncalls = 0 /\ CreateChangeGroupOp(tx)

NextCreate == \E tx \in ChangeGroups : CreateFirst(tx)

SpecCreate == InitState /\ [][NextCreate]_vars

(***************************************************************************)
(* check_correctness alone: a transaction as it arrives (deserialized, its *)
(* signer not cached), checked once and checked again.                     *)
(***************************************************************************)
\* A transaction with these fields, as deserialization builds it.
Deserialized(kind, account_id, to, token, amount, fee, group1, time_range, signature) ==
    [kind |-> kind, account_id |-> account_id, from |-> "A", to |-> to,
     token |-> token, amount |-> amount, fee |-> fee, group1 |-> group1,
     group2 |-> 1, nonce |-> 0, signature |-> signature,
     cached_signer |-> NotCached, fast |-> FALSE, time_range |-> time_range]

\* The transaction signed by the key over its own bytes, when it has bytes.
SignedBy(key, tx) ==
    IF get_bytes(tx).panic THEN tx
    ELSE [tx EXCEPT !.signature = sign_musig(key, get_bytes(tx).bytes)]

CheckedTxs ==
    LET unsigned ==
         {Deserialized(kind, account_id, to, token, amount, fee, group1,
                       time_range, DefaultTxSignature) :
            kind \in {"Transfer", "ChangeGroup"},
            account_id \in {0, max_account_id + 1},
            to \in {"B", ZeroAddress},
            token \in {0, max_processable_token + 1, max_fungible_token_id + 1,
                       max_token_id + 1},
            amount \in {0, u128_MAX, u128_MAX + 1},
            fee \in {0, 1, u128_MAX, u128_MAX + 1},
            group1 \in GroupIds,
            time_range \in {None, Some(TimeRange(0, 1)), Some(TimeRange(1, 0))}}
    IN unsigned \cup {SignedBy("pkA", tx) : tx \in unsigned}

InitCheck ==
    /\ NoSdk
    /\ NoBatch
    /\ NoService
    /\ NoState
    /\ txObject \in {Some(t) : t \in CheckedTxs}
    /\ config \in {Some(c) : c \in Configs}
    /\ txcall = NoTxCall
    /\ nedits = 0
    /\ opObject = None
    /\ pubdata = NoPubdata

\* tx.check_correctness(sender_autorisation, receiver_autorisation) on the
\* transaction, which keeps what the call wrote into it.
CheckCorrectness(sender_autorisation, receiver_autorisation) ==
    /\ txObject # None
    /\ txcall.res # "Panic"
    /\ LET r == check_correctness(txObject[1], sender_autorisation,
                                  receiver_autorisation, config[1])
       IN /\ txObject' = Some(r.tx)
          /\ txcall' = [call |-> "check_correctness", n |-> txcall.n + 1,
                        sender |-> sender_autorisation,
                        receiver |-> receiver_autorisation,
                        res |-> r.res, before |-> txObject]
    /\ UNCHANGED <<config, nedits>>
    /\ UNCHANGED <<batchVars, serviceVars, stateVars, pubVars, sdkVars>>

\* The first check, with any flags (a ChangeGroup has none to take).
CheckFirst ==
    /\ txcall.n = 0
    /\ \E s, r \in BOOLEAN :
         /\ txObject[1].kind = "ChangeGroup" => (s /\ r)
         /\ CheckCorrectness(s, r)

\* The check once more, with the same flags.
CheckAgain ==
    /\ txcall.call = "check_correctness" /\ txcall.n = 1
    /\ CheckCorrectness(txcall.sender, txcall.receiver)

NextCheck == CheckFirst \/ CheckAgain

SpecCheck == InitCheck /\ [][NextCheck]_vars

(***************************************************************************)
(* Specification of one transaction object through its life: built by new, *)
(* by new_signed or by deserialization, then its public fields written,    *)
(* its correctness checked and its signer cache wiped, in any order.       *)
(***************************************************************************)
MaxEdits == 2

\* Transfer::new_signed / ChangeGroup::new_signed: new without a signature,
\* the signature over the bytes, then check_correctness, whose error is
\* the result.
tx_new_signed(kind, account_id, from, to, token, amount, fee, group1, group2, nonce, time_range, private_key, env) ==
    LET tx == tx_new(kind, account_id, from, to, token, amount, fee, group1,
                     group2, nonce, time_range, None).tx
    IN IF get_bytes(tx).panic THEN CheckResult("Panic", tx)
       ELSE check_correctness(
                [tx EXCEPT !.signature =
                              sign_musig(private_key, get_bytes(tx).bytes)],
                TRUE, TRUE, env)

\* The transactions the life starts from: one set of valid field values,
\* built in each of the four ways.
BuiltTxs ==
    UNION {
      {tx_new(kind, 0, "A", "B", 0, 1, 0, 0, 1, 0, DefaultTimeRange, None).tx,
       tx_new(kind, 0, "A", "B", 0, 1, 0, 0, 1, 0, DefaultTimeRange,
              Some(sign_musig("pkA",
                     get_bytes(Deserialized(kind, 0, "B", 0, 1, 0, 0,
                                            Some(DefaultTimeRange),
                                            DefaultTxSignature)).bytes))).tx,
       tx_new_signed(kind, 0, "A", "B", 0, 1, 0, 0, 1, 0, DefaultTimeRange,
                     "pkA", Config(0, FALSE)).tx,
       SignedBy("pkA", Deserialized(kind, 0, "B", 0, 1, 0, 0, None,
                                    DefaultTxSignature))}
      : kind \in {"Transfer", "ChangeGroup"}}

InitTx ==
    /\ NoSdk
    /\ NoBatch
    /\ NoService
    /\ NoState
    /\ txObject \in {Some(t) : t \in BuiltTxs}
    /\ config = Some(Config(0, FALSE))
    /\ txcall = NoTxCall
    /\ nedits = 0
    /\ opObject = None
    /\ pubdata = NoPubdata

\* The values a public field is written with.
FieldValues(tx, field) ==
    CASE field = "account_id" -> {0, 1}
      [] field = "from" -> {"A", "B"}
      [] field = "to" -> {"B", "C"}
      [] field = "token" -> {0, 1}
      [] field = "amount" -> {1, 2, u128_MAX, u128_MAX + 1}
      [] field = "fee" -> {0, 2, u128_MAX}
      [] field = "group1" -> GroupIds
      [] field = "group2" -> IF tx.kind = "ChangeGroup" THEN GroupIds ELSE {}
      [] field = "nonce" -> {0, 1}
      [] field = "fast" -> BOOLEAN
      [] field = "time_range" ->
             {None, Some(DefaultTimeRange), Some(TimeRange(1, 1))}
      [] field = "signature" ->
             {DefaultTxSignature} \cup
             (IF get_bytes(tx).panic THEN {}
              ELSE {sign_musig("pkA", get_bytes(tx).bytes)})

PublicFields ==
    {"account_id", "from", "to", "token", "amount", "fee", "group1", "group2",
     "nonce", "fast", "time_range", "signature"}

\* tx.field = value, with another value than the field holds: the fields
\* are public, and a write touches nothing else.
SetField(field, value) ==
    /\ txObject # None
    /\ nedits < MaxEdits
    /\ txObject[1][field] # value
    /\ txObject' = Some([txObject[1] EXCEPT ![field] = value])
    /\ txcall' = [txcall EXCEPT !.call = "set_field", !.res = field,
                                !.before = txObject]
    /\ nedits' = nedits + 1
    /\ UNCHANGED config
    /\ UNCHANGED <<batchVars, serviceVars, stateVars, pubVars, sdkVars>>

WriteField ==
    \E field \in PublicFields :
        \E value \in FieldValues(txObject[1], field) : SetField(field, value)

\* tx.wipe_signer_cache().
WipeSignerCache ==
    /\ txObject # None
    /\ nedits < MaxEdits
    /\ txObject' = Some(wipe_signer_cache(txObject[1]))
    /\ txcall' = [txcall EXCEPT !.call = "wipe_signer_cache", !.res = "none",
                                !.before = txObject]
    /\ nedits' = nedits + 1
    /\ UNCHANGED config
    /\ UNCHANGED <<batchVars, serviceVars, stateVars, pubVars, sdkVars>>

\* tx.check_correctness(true, true) at any point of the life.
CheckBuilt ==
    /\ txcall.n < MaxEdits
    /\ CheckCorrectness(TRUE, TRUE)

NextTx == WriteField \/ WipeSignerCache \/ CheckBuilt

SpecTx == InitTx /\ [][NextTx]_vars

(***************************************************************************)
(* Specification of ChangeGroup::new_signed: called once with any          *)
(* arguments within the bounds, under any configuration; the transaction   *)
(* it returned is then checked again.                                      *)
(***************************************************************************)
InitNewSigned ==
    /\ NoSdk
    /\ NoBatch
    /\ NoService
    /\ NoState
    /\ txObject = None
    /\ config \in {Some(c) : c \in Configs}
    /\ txcall = NoTxCall
    /\ nedits = 0
    /\ opObject = None
    /\ pubdata = NoPubdata

\* ChangeGroup::new_signed(account_id, from, to, token, amount, fee, group1,
\* group2, nonce, time_range, private_key): txObject is the transaction of
\* Ok(tx) and None after an Err or a panic; before is the transaction new
\* built from the arguments.
NewSigned ==
    /\ txObject = None
    /\ txcall.call # "new_signed"
    /\ \E token \in 0 .. (max_fungible_token_id + 1), amount \in BigUints,
          fee \in {0, 2, u128_MAX}, group1 \in GroupIds, time_range \in TimeRanges,
          private_key \in {"pkA", "pkB"} :
         LET r == tx_new_signed("ChangeGroup", 0, "A", "B", token, amount, fee,
                                group1, 1, 0, time_range, private_key, config[1])
             built == tx_new("ChangeGroup", 0, "A", "B", token, amount, fee,
                             group1, 1, 0, time_range, None).tx
         IN /\ txObject' = IF r.res = "Ok" THEN Some(r.tx) ELSE None
            /\ txcall' = [call |-> "new_signed", n |-> 0, sender |-> TRUE,
                          receiver |-> TRUE, res |-> r.res, before |-> Some(built)]
    /\ UNCHANGED <<config, nedits>>
    /\ UNCHANGED <<batchVars, serviceVars, stateVars, pubVars, sdkVars>>

\* check_correctness on the transaction new_signed returned.
CheckNewSigned ==
    /\ txcall.call = "new_signed"
    /\ CheckCorrectness(TRUE, TRUE)

NextNewSigned == NewSigned \/ CheckNewSigned

SpecNewSigned == InitNewSigned /\ [][NextNewSigned]_vars

(***************************************************************************)
(* Specification of the public data of one ChangeGroupOp: the state side   *)
(* writes it, the parser reads it or an input of another length, and the   *)
(* circuit witness built from the same operation writes its bits.          *)
(***************************************************************************)
\* The operations create_op returns: the account id of the operation is
\* the one of its transaction.
PubdataOps ==
    {ChangeGroupOp(
        [Deserialized("ChangeGroup", account_id, to, token, amount, fee, 1,
                      Some(TimeRange(1, 1)), DefaultTxSignature)
           EXCEPT !.group2 = group2, !.nonce = 1],
        account_id) :
       account_id \in {0, 1, 258},
       to \in {ZeroAddress, "B", "C"},
       token \in {0, 1, 300},
       amount \in {0, 1, u128_MAX, u128_MAX + 1},
       fee \in {0, 2, u128_MAX},
       group2 \in {0, 1, 257}}

InitPubdata ==
    /\ NoSdk
    /\ NoBatch
    /\ NoService
    /\ NoState
    /\ txObject = None
    /\ config = None
    /\ txcall = NoTxCall
    /\ nedits = 0
    /\ opObject \in {Some(op) : op \in PubdataOps}
    /\ pubdata = NoPubdata

\* op.get_public_data().
GetPublicData ==
    /\ opObject # None
    /\ pubdata.state = None
    /\ pubdata' = [pubdata EXCEPT !.state = Some(get_public_data(opObject[1]))]
    /\ UNCHANGED opObject
    /\ UNCHANGED <<batchVars, serviceVars, stateVars, txVars, sdkVars>>

\* The inputs of the parser: the public data written, the data without its
\* last byte, the data with one more byte, and nothing.
ParserInputs(data) ==
    {data, SubSeq(data, 1, Len(data) - 1), data \o <<0>>, <<>>}

\* ChangeGroupOp::from_public_data(bytes).
FromPublicData ==
    /\ pubdata.state # None
    /\ ~pubdata.state[1].panic
    /\ pubdata.parsed = None
    /\ \E bytes \in ParserInputs(pubdata.state[1].data) :
         pubdata' = [pubdata EXCEPT !.parsed =
                        Some([input |-> bytes,
                              result |-> from_public_data(bytes)])]
    /\ UNCHANGED opObject
    /\ UNCHANGED <<batchVars, serviceVars, stateVars, txVars, sdkVars>>

\* ChangeGroupWitness::apply_tx(tree, op).get_pubdata().
WitnessPubdata ==
    /\ opObject # None
    /\ pubdata.witness = None
    /\ LET w == ChangeGroupWitness_apply_tx(opObject[1])
       IN pubdata' = [pubdata EXCEPT !.witness =
             Some(IF w.panic THEN [panic |-> TRUE, bits |-> <<>>]
                  ELSE [panic |-> FALSE,
                        bits |-> ChangeGroupWitness_get_pubdata(w.witness[1])])]
    /\ UNCHANGED opObject
    /\ UNCHANGED <<batchVars, serviceVars, stateVars, txVars, sdkVars>>

NextPubdata == GetPublicData \/ FromPublicData \/ WitnessPubdata

SpecPubdata == InitPubdata /\ [][NextPubdata]_vars

(***************************************************************************)
(* Specification of the Ethereum sign messages of one transaction: its     *)
(* part is asked for, then its message, for the same token.                *)
(***************************************************************************)
MessageTxs ==
    {MessageTx(kind, to, amount, fee, 0, 1, nonce) :
       kind \in {"Transfer", "ChangeGroup", "MintNFT", "Close"},
       to \in {"B", "C"}, amount \in {0, 1}, fee \in {0, 2},
       nonce \in {0, 1, 7}}

Tokens == {Token("ETH", 18), Token("DAI", 0)}

InitMessage ==
    /\ NoSdk
    /\ NoBatch
    /\ NoService
    /\ NoState
    /\ txObject \in {Some(t) : t \in MessageTxs}
    /\ config = None
    /\ txcall = [call |-> "none", n |-> 0, token |-> None, res |-> None,
                 before |-> None]
    /\ nedits = 0
    /\ opObject = None
    /\ pubdata = NoPubdata

\* tx.get_ethereum_sign_message_part(token).
GetEthereumSignMessagePart ==
    /\ txcall.n = 0
    /\ \E token \in Tokens :
         txcall' = [call |-> "get_ethereum_sign_message_part", n |-> 1,
                    token |-> Some(token),
                    res |-> ZkSyncTx_get_ethereum_sign_message_part(
                                txObject[1], token),
                    before |-> None]
    /\ UNCHANGED <<txObject, config, nedits>>
    /\ UNCHANGED <<batchVars, serviceVars, stateVars, pubVars, sdkVars>>

\* tx.get_ethereum_sign_message(token), which keeps in before what the
\* part was.
GetEthereumSignMessage ==
    /\ txcall.n = 1
    /\ txcall' = [call |-> "get_ethereum_sign_message", n |-> 2,
                  token |-> txcall.token,
                  res |-> ZkSyncTx_get_ethereum_sign_message(
                              txObject[1], txcall.token[1]),
                  before |-> txcall.res]
    /\ UNCHANGED <<txObject, config, nedits>>
    /\ UNCHANGED <<batchVars, serviceVars, stateVars, pubVars, sdkVars>>

NextMessage == GetEthereumSignMessagePart \/ GetEthereumSignMessage

SpecMessage == InitMessage /\ [][NextMessage]_vars

(***************************************************************************)
(* The SDK: ChangeGroupBuilder of a wallet, and the signer of the wallet.  *)
(***************************************************************************)
\* u64::MAX, scaled down to the largest timestamp of the model.
u64_MAX == DefaultTimeRange.valid_until

\* The configuration of the process the SDK runs in.
ClientConfig == Config(0, FALSE)

\* Token of the SDK: id, symbol and decimals.
SdkToken(id, symbol, decimals) == [id |-> id, symbol |-> symbol, decimals |-> decimals]

\* ChangeGroupBuilder: each field is an Option.
ChangeGroupBuilder(token, amount, fee, to, group1, group2, nonce, valid_from, valid_until) ==
    [token |-> token, amount |-> amount, fee |-> fee, to |-> to, group1 |-> group1,
     group2 |-> group2, nonce |-> nonce, valid_from |-> valid_from,
     valid_until |-> valid_until]

\* ChangeGroupBuilder::new(wallet)
ChangeGroupBuilder_new == ChangeGroupBuilder(None, None, None, None, None, None, None, None, None)

\* Provider, by its answers: account_info is Some(AccountInfo) or None when
\* the request fails; get_tx_fee is Some(fee by TxFeeTypes) or None when the
\* request fails.
Provider(committed_nonce, fees) ==
    [account_info |-> IF committed_nonce = None THEN None
                      ELSE Some([committed |-> [nonce |-> committed_nonce[1]]]),
     get_tx_fee |-> fees]

Fees == [t \in {"Withdraw", "Transfer"} |->
            [total_fee |-> IF t = "Withdraw" THEN 2 ELSE 1]]

Providers == {Provider(n, f) : n \in {None, Some(1)}, f \in {None, Some(Fees)}}

\* Signer: account_id is None until the signing key is set; eth_signer is
\* whether the signer has an Ethereum signer.
Signer(account_id, address, private_key, eth_signer) ==
    [account_id |-> account_id, address |-> address, private_key |-> private_key,
     eth_signer |-> eth_signer]

Signers == {Signer(a, "A", "pkA", e) : a \in {None, Some(0)}, e \in BOOLEAN}

Wallets == {[address |-> "A", provider |-> p, signer |-> g] : p \in Providers, g \in Signers}

\* Signer::sign_change_group: ChangeGroup::new_signed for the account of
\* the signer, then the Ethereum signature of its message when the signer
\* has an Ethereum signer.
sign_change_group(signer, token, amount, fee, eth_address, group1, group2, nonce, time_range) ==
    IF signer.account_id = None
    THEN [res |-> "NoSigningKey", tx |-> None, eth_signature |-> None]
    ELSE LET change_group ==
                 tx_new_signed("ChangeGroup", signer.account_id[1], signer.address,
                               eth_address, token.id, amount, fee, group1, group2,
                               nonce, time_range, signer.private_key, ClientConfig)
         IN IF change_group.res = "Panic"
            THEN [res |-> "Panic", tx |-> None, eth_signature |-> None]
            ELSE IF change_group.res # "Ok"
            THEN [res |-> "SigningFailed", tx |-> None, eth_signature |-> None]
            ELSE [res |-> "Ok", tx |-> change_group.tx,
                  eth_signature |-> IF signer.eth_signer
                                    THEN Some(EthereumSignature(signer.address))
                                    ELSE None]

\* The function asking the fee of a Transfer.
ChangeGroupBuilder_tx_TransferFee(self, w) ==
    LET missing(field) == [res |-> "MissingRequiredField", field |-> field,
                           log |-> <<>>, tx |-> None, eth_signature |-> None]
        failed(res, log) == [res |-> res, field |-> "-", log |-> log,
                             tx |-> None, eth_signature |-> None]
    IN IF self.token = None THEN missing("token")
       ELSE IF self.amount = None THEN missing("amount")
       ELSE IF self.to = None THEN missing("to")
       ELSE IF self.group1 = None THEN missing("group1")
       ELSE IF self.group2 = None THEN missing("group2")
       ELSE
       LET token == self.token[1]
           to == self.to[1]
           log1 == IF self.nonce = None THEN <<<<"account_info", w.address>>>> ELSE <<>>
           log2 == IF self.fee = None
                   THEN log1 \o <<<<"get_tx_fee", "Transfer", to, token.id>>>>
                   ELSE log1
       IN IF self.nonce = None /\ w.provider.account_info = None
          THEN failed("ProviderError", log1)
          ELSE IF self.fee = None /\ w.provider.get_tx_fee = None
          THEN failed("ProviderError", log2)
          ELSE
          LET nonce == IF self.nonce # None THEN self.nonce[1]
                       ELSE w.provider.account_info[1].committed.nonce
              fee == IF self.fee # None THEN self.fee[1]
                     ELSE w.provider.get_tx_fee[1]["Transfer"].total_fee
              valid_from == IF self.valid_from # None THEN self.valid_from[1] ELSE 0
              valid_until == IF self.valid_until # None THEN self.valid_until[1]
                             ELSE u64_MAX
              time_range == TimeRange(valid_from, valid_until)
              signed == sign_change_group(w.signer, token, self.amount[1], fee, to,
                                          self.group1[1], self.group2[1], nonce,
                                          time_range)
              log3 == log2 \o <<<<"sign_change_group", token, self.amount[1], fee, to,
                                 self.group1[1], self.group2[1], nonce, time_range>>>>
          IN IF signed.res = "Ok"
             THEN [res |-> "Ok", field |-> "-", log |-> log3, tx |-> Some(signed.tx),
                   eth_signature |-> signed.eth_signature]
             ELSE failed(IF signed.res = "Panic" THEN "Panic" ELSE "SigningError", log3)

\* ChangeGroupBuilder::tx(self), of the wallet w: the result, the field a
\* MissingRequiredField names, the calls made on the provider and on the
\* signer in order, and the transaction and Ethereum signature of Ok.
ChangeGroupBuilder_tx(self, w) ==
    LET missing(field) == [res |-> "MissingRequiredField", field |-> field,
                           log |-> <<>>, tx |-> None, eth_signature |-> None]
        failed(res, log) == [res |-> res, field |-> "-", log |-> log,
                             tx |-> None, eth_signature |-> None]
    IN IF self.token = None THEN missing("token")
       ELSE IF self.amount = None THEN missing("amount")
       ELSE IF self.to = None THEN missing("to")
       ELSE IF self.group1 = None THEN missing("group1")
       ELSE IF self.group2 = None THEN missing("group2")
       ELSE
       LET token == self.token[1]
           to == self.to[1]
           log1 == IF self.nonce = None THEN <<<<"account_info", w.address>>>> ELSE <<>>
           log2 == IF self.fee = None
                   THEN log1 \o <<<<"get_tx_fee", "Withdraw", to, token.id>>>>
                   ELSE log1
       IN IF self.nonce = None /\ w.provider.account_info = None
          THEN failed("ProviderError", log1)
          ELSE IF self.fee = None /\ w.provider.get_tx_fee = None
          THEN failed("ProviderError", log2)
          ELSE
          LET nonce == IF self.nonce # None THEN self.nonce[1]
                       ELSE w.provider.account_info[1].committed.nonce
              fee == IF self.fee # None THEN self.fee[1]
                     ELSE w.provider.get_tx_fee[1]["Withdraw"].total_fee
              valid_from == IF self.valid_from # None THEN self.valid_from[1] ELSE 0
              valid_until == IF self.valid_until # None THEN self.valid_until[1]
                             ELSE u64_MAX
              time_range == TimeRange(valid_from, valid_until)
              signed == sign_change_group(w.signer, token, self.amount[1], fee, to,
                                          self.group1[1], self.group2[1], nonce,
                                          time_range)
              log3 == log2 \o <<<<"sign_change_group", token, self.amount[1], fee, to,
                                 self.group1[1], self.group2[1], nonce, time_range>>>>
          IN IF signed.res = "Ok"
             THEN [res |-> "Ok", field |-> "-", log |-> log3, tx |-> Some(signed.tx),
                   eth_signature |-> signed.eth_signature]
             ELSE failed(IF signed.res = "Panic" THEN "Panic" ELSE "SigningError", log3)

(***************************************************************************)
(* Specification of one ChangeGroupBuilder: created by new for any wallet, *)
(* its setters called in any order, then tx().                             *)
(***************************************************************************)
InitBuilder ==
    /\ NoBatch
    /\ NoService
    /\ NoState
    /\ NoTx
    /\ builder = Some(ChangeGroupBuilder_new)
    /\ wallet \in {Some(w) : w \in Wallets}
    /\ sdkcall = NoSdkCall

\* The values the setters are called with: amount() and fee() store the
\* closest packable value, the other setters store their argument.
SetterValues(field) ==
    CASE field = "token" -> {SdkToken(0, "ETH", 18)}
      [] field = "amount" -> {pack_amount(1), pack_amount(u128_MAX)}
      [] field = "fee" -> {pack_amount(0)}
      [] field = "to" -> {"B"}
      [] field = "group1" -> {0}
      [] field = "group2" -> {1}
      [] field = "nonce" -> {0}
      [] field = "valid_from" -> {1}
      [] field = "valid_until" -> {0}

BuilderFields ==
    {"token", "amount", "fee", "to", "group1", "group2", "nonce", "valid_from",
     "valid_until"}

\* builder.field(value): self.field = Some(value).
BuilderSet ==
    /\ builder # None
    /\ \E field \in BuilderFields : \E value \in SetterValues(field) :
         /\ builder[1][field] = None
         /\ builder' = Some([builder[1] EXCEPT ![field] = Some(value)])
         /\ sdkcall' = [call |-> field, before |-> builder, result |-> None]
    /\ UNCHANGED wallet
    /\ UNCHANGED <<batchVars, serviceVars, stateVars, txVars, pubVars>>

\* builder.tx().await: the builder is consumed.
BuilderTx ==
    /\ builder # None
    /\ builder' = None
    /\ sdkcall' = [call |-> "tx", before |-> builder,
                   result |-> Some(ChangeGroupBuilder_tx(builder[1], wallet[1]))]
    /\ UNCHANGED wallet
    /\ UNCHANGED <<batchVars, serviceVars, stateVars, txVars, pubVars>>

NextBuilder == BuilderSet \/ BuilderTx

SpecBuilder == InitBuilder /\ [][NextBuilder]_vars

(***************************************************************************)
(* Batch matching: claims C4, C5, C6 (under SpecBatch).                    *)
(***************************************************************************)
Range(s) == {s[i] : i \in DOMAIN s}

\* The signature verifies for the address over the shared batch message.
Verifies(signature, address) == verify_ethereum_signature(signature, address) = "true"

\* Every distinct sender is covered by at least one signature of the set.
Covered(senders, signatures) ==
    \A a \in Range(senders) : \E k \in DOMAIN signatures : Verifies(signatures[k], a)

AllRecoverable(signatures) ==
    \A k \in DOMAIN signatures : signatures[k].form = "EthereumSignature"

BatchReturned == bst.res # "Running"

\* C4 as stated: batch matching returns success exactly when every distinct
\* sender is covered by a signature that verifies for it, for recoverable and
\* for EIP-1271 signatures alike.
C4_SuccessIffCovered ==
    bst.res \in {"Ok", "IncorrectEthSignature"} =>
        (bst.res = "Ok" <=> Covered(bSenders, bSignatures))

\* C4 amended: batch matching returns success only when every distinct sender
\* is covered and the distinct senders are no more than the signatures, it
\* fails with IncorrectEthSignature only when that is not so, and when every
\* signature is of the recoverable form it returns success exactly when every
\* distinct sender is covered.
C4_SuccessIffCoveredWithinBudget ==
    BatchReturned =>
        LET fits == /\ Covered(bSenders, bSignatures)
                    /\ Cardinality(Range(bSenders)) <= Len(bSignatures)
        IN /\ bst.res = "Ok" => fits
           /\ bst.res = "IncorrectEthSignature" => ~fits
           /\ AllRecoverable(bSignatures) =>
                 /\ bst.res \in {"Ok", "IncorrectEthSignature"}
                 /\ bst.res = "Ok" <=> Covered(bSenders, bSignatures)

\* C4 witness: a batch with a repeated sender and signatures of both forms
\* has matched.
C4_Witness ==
    /\ bst.res = "Ok"
    /\ bSenders = <<"A", "B", "A">>
    /\ bSignatures = <<EIP1271Signature({"B"}, TRUE), EthereumSignature("A")>>

\* The outer loop is at a sender that is not matched yet.
AtNewSender ==
    /\ bst.res = "Running"
    /\ bst.i <= Len(bSenders)
    /\ bSenders[bst.i] \notin bst.signers

\* The log entries of the signature checks made for the sender at index i.
ChecksFor(st, i) == SelectSeq(st.checked, LAMBDA c : c[1] = i)

\* C5: when the loop reaches a sender not yet matched and the matched senders
\* are already as many as the signatures, the batch fails with
\* IncorrectEthSignature at once and no signature is verified for that
\* sender; [A, B, C] with [sig_A, sig_B] fails on reaching C, and a non-empty
\* senders list with no signature fails on the first sender.
C5_PigeonholeShortCircuit ==
    /\ [][(AtNewSender /\ Cardinality(bst.signers) = Len(bSignatures)) =>
            /\ bst'.res = "IncorrectEthSignature"
            /\ bst'.checked = bst.checked
            /\ bst'.i = bst.i]_vars
    /\ [](BatchReturned =>
            /\ (/\ bSenders = <<"A", "B", "C">>
                /\ bSignatures = <<EthereumSignature("A"), EthereumSignature("B")>>) =>
                  /\ bst.res = "IncorrectEthSignature"
                  /\ bst.i = 3
                  /\ ChecksFor(bst, 3) = <<>>
            /\ (bSenders # <<>> /\ bSignatures = <<>>) =>
                  /\ bst.res = "IncorrectEthSignature"
                  /\ bst.i = 1
                  /\ bst.checked = <<>>)

\* C5 witness: [A, B, C] with [sig_A, sig_B] has failed at C without a check
\* for C.
C5_Witness ==
    /\ bSenders = <<"A", "B", "C">>
    /\ bSignatures = <<EthereumSignature("A"), EthereumSignature("B")>>
    /\ bst.res = "IncorrectEthSignature"
    /\ bst.i = 3
    /\ bst.signers = {"A", "B"}
    /\ ChecksFor(bst, 3) = <<>>

\* The first signature that verifies for the address, 0 when none does.
FirstVerifying(signatures, address) ==
    IF \E k \in DOMAIN signatures : Verifies(signatures[k], address)
    THEN CHOOSE k \in DOMAIN signatures :
             /\ Verifies(signatures[k], address)
             /\ \A j \in 1..(k - 1) : ~Verifies(signatures[j], address)
    ELSE 0

\* C6: a later occurrence of a matched sender is skipped without any
\* signature check and without using budget; for a new sender the signatures
\* are checked in the supplied order up to the first that verifies; so
\* [A, A, B] with [sig_B, sig_A] succeeds with A and B matched once each.
C6_SkipMatchedScanInOrder ==
    /\ [][(bst.res = "Running" /\ bst.i <= Len(bSenders)
             /\ bSenders[bst.i] \in bst.signers) =>
            bst' = [bst EXCEPT !.i = @ + 1]]_vars
    /\ [][(AtNewSender /\ Cardinality(bst.signers) < Len(bSignatures)) =>
            LET new == SubSeq(bst'.checked, Len(bst.checked) + 1, Len(bst'.checked))
                first == FirstVerifying(bSignatures, bSenders[bst.i])
            IN /\ \A k \in DOMAIN new : new[k] = <<bst.i, k>>
               /\ bst'.res = "Running" =>
                    /\ Len(new) = first
                    /\ first > 0
                    /\ bst'.signers = bst.signers \cup {bSenders[bst.i]}
               /\ bst'.res = "IncorrectEthSignature" =>
                    (first = 0 /\ Len(new) = Len(bSignatures))]_vars
    /\ []((/\ BatchReturned
           /\ bSenders = <<"A", "A", "B">>
           /\ bSignatures = <<EthereumSignature("B"), EthereumSignature("A")>>) =>
             /\ bst.res = "Ok"
             /\ bst.signers = {"A", "B"}
             /\ bst.checked = << <<1, 1>>, <<1, 2>>, <<3, 1>> >>)

\* C6 witness: [A, A, B] with [sig_B, sig_A] has matched, the second A
\* without a check.
C6_Witness ==
    /\ bSenders = <<"A", "A", "B">>
    /\ bSignatures = <<EthereumSignature("B"), EthereumSignature("A")>>
    /\ bst.res = "Ok"
    /\ ChecksFor(bst, 2) = <<>>
    /\ bst.checked = << <<1, 1>>, <<1, 2>>, <<3, 1>> >>

(***************************************************************************)
(* The service and the verification of one request: claims C1 to C3 and    *)
(* C7 to C10.                                                              *)
(***************************************************************************)
WorkerEnded(r) == pc[r] \in {"Done", "Panicked"}

Results(r) == {delivered[r][k].result : k \in DOMAIN delivered[r]}

Logged(r) == Range(calls[r])

\* C1 (under Spec): every request taken from the queue gets exactly one
\* Result on its own reply channel, or nothing when its receiver was dropped
\* before; never two replies, never a reply of another request.  Stated for
\* the workers that have ended.
C1_ExactlyOneReply ==
    \A r \in Ids :
        /\ Len(delivered[r]) <= 1
        /\ \A k \in DOMAIN delivered[r] : delivered[r][k].from = r
        /\ WorkerEnded(r) =>
              IF receiver[r] = "open" THEN Len(delivered[r]) = 1
              ELSE delivered[r] = <<>>

\* C2 (under SpecVerify): a VerifiedTx exists only for a request whose
\* base-chain stage and whose native stage both returned Ok, on the data of
\* that request.
C2_VerifiedOnlyAfterBothStages ==
    \A r \in Ids :
        (resp[r] = "VerifiedTx" \/ "VerifiedTx" \in Results(r)) =>
            /\ eth[r] = "Ok"
            /\ verify_eth_signature(requests[r]).res = "Ok"
            /\ native[r] = "Ok"
            /\ \E storage \in StorageStates :
                   verify_tx_correctness(requests[r], storage).res = "Ok"

\* C2 witness: a batch of two members with a batch signature was verified
\* and the VerifiedTx was delivered.
C2_Witness ==
    /\ requests[1].type = "Batch"
    /\ Len(requests[1].txs) = 2
    /\ requests[1].batch_sign_data # None
    /\ eth[1] = "Ok"
    /\ native[1] = "Ok"
    /\ Results(1) = {"VerifiedTx"}

NativeCalls == StorageCalls \cup {"check_correctness"}

\* C3 (under SpecVerify): the native stage of a request runs only once its
\* base-chain stage has completed with Ok, every call of the base-chain stage
\* precedes every call of the native stage, and after a failed base-chain
\* stage the native stage is never started.
C3_StagesSequential ==
    /\ [][\A r \in Ids :
            /\ native'[r] # native[r] =>
                  (eth[r] = "Ok" /\ eth'[r] = "Ok" /\ pc[r] = "AuthenticatingNative")
            /\ (\E c \in Range(calls'[r]) : c.call \in NativeCalls) =>
                  (eth[r] = "Ok" /\ pc[r] # "AuthenticatingBaseChain")]_vars
    /\ [](\A r \in Ids :
            /\ eth[r] \notin {"NotRun", "Ok"} =>
                 /\ native[r] = "NotRun"
                 /\ pc[r] # "AuthenticatingNative"
                 /\ \A c \in Logged(r) : c.call \notin NativeCalls
            /\ \A i, j \in DOMAIN calls[r] :
                 (calls[r][i].call \in NativeCalls /\ calls[r][j].call \notin NativeCalls)
                    => j < i)

\* C3 witness: a request whose base-chain stage failed has ended without a
\* native stage.
C3_Witness ==
    /\ eth[1] = "IncorrectEthSignature"
    /\ native[1] = "NotRun"
    /\ pc[1] = "Done"
    /\ Results(1) = {"IncorrectEthSignature"}

\* A transaction for which verify_eth_signature_single_tx has something to
\* check: its own eth_sign_data, an on-chain ChangePubKey, a ChangeGroup.
HasOwnCheck(tx) ==
    \/ tx.eth_sign_data # None
    \/ tx.kind = "ChangePubKey" /\ tx.onchain
    \/ tx.kind = "ChangeGroup"

\* C7 (under SpecVerify): in a Batch request that passed the base-chain
\* stage, every transaction that carries its own eth_sign_data, is an
\* on-chain ChangePubKey or is a ChangeGroup went through
\* verify_eth_signature_single_tx, whatever the lengths of txs, senders and
\* tokens.
C7_EveryBatchMemberChecked ==
    \A r \in Ids :
        (requests[r].type = "Batch" /\ eth[r] = "Ok") =>
            \A k \in DOMAIN requests[r].txs :
                HasOwnCheck(requests[r].txs[k]) =>
                    Call("verify_eth_signature_single_tx", k, "-") \in Logged(r)

\* C8 (under SpecVerify): a Batch request whose senders and txs differ in
\* length is rejected with TxAddError::Other before any signature check,
\* oracle call or storage call, and no VerifiedTx is produced for it.
C8_LengthMismatchRejected ==
    \A r \in Ids :
        (requests[r].type = "Batch" /\ Len(requests[r].senders) # Len(requests[r].txs)) =>
            /\ eth[r] \in {"NotRun", "Other"}
            /\ calls[r] = <<>>
            /\ native[r] = "NotRun"
            /\ pc[r] \in {"Queued", "AuthenticatingBaseChain", "Replying", "Done"}
            /\ pc[r] \in {"Replying", "Done"} => resp[r] = "Other"
            /\ Results(r) \subseteq {"Other"}

\* C8 witness: a batch of two transactions with one sender was answered
\* TxAddError::Other.
C8_Witness ==
    /\ requests[1].type = "Batch"
    /\ Len(requests[1].txs) = 2
    /\ Len(requests[1].senders) = 1
    /\ requests[1].batch_sign_data # None
    /\ Results(1) = {"Other"}
    /\ calls[1] = <<>>

\* C9 (under SpecVerify): for an on-chain ChangePubKey the oracle is asked,
\* and when it does not confirm the authorization the request is rejected
\* with ChangePkNotAuthorized and the native stage is never run.
C9_UnconfirmedKeyChangeDenied ==
    \A r \in Ids :
        LET tx == requests[r].txs[1] IN
        (/\ requests[r].type = "Tx"
         /\ tx.kind = "ChangePubKey"
         /\ tx.onchain
         /\ eth[r] # "NotRun") =>
            /\ Call("is_new_pubkey_hash_authorized", 1, tx.authorized) \in Logged(r)
            /\ tx.authorized # "true" =>
                 /\ eth[r] = "ChangePkNotAuthorized"
                 /\ native[r] = "NotRun"
                 /\ resp[r] = "ChangePkNotAuthorized"

OracleFailed(r) == \E c \in Logged(r) : c.call \in OracleCalls /\ c.ans = "Err"

\* C10 (under SpecVerify): when an oracle call of a request could not be
\* completed, the requester gets an error on its reply channel, other than
\* the errors of an oracle that answers invalid or not authorized.
C10_OracleFailureReported ==
    \A r \in Ids :
        (OracleFailed(r) /\ WorkerEnded(r) /\ receiver[r] = "open") =>
            \E x \in Results(r) :
                x \notin {"VerifiedTx", "IncorrectEthSignature", "ChangePkNotAuthorized",
                          "UserNotWhitelisted"}

(***************************************************************************)
(* The dispatcher and its workers: claims C11, C12, C13.                   *)
(***************************************************************************)
\* The eth stage of the request calls the base-chain oracle.
CallsOracle(data) ==
    \E c \in Range(verify_eth_signature(data).log) : c.call \in OracleCalls

\* C11: the dispatcher never waits for a verification. Whatever the worker
\* of the first request does, and also when it stays in its oracle call
\* forever, every other request that was submitted is taken from the queue
\* and its worker runs to its end; a worker that ends normally with its
\* receiver still there has sent the result.
C11_OthersServedWhileOneHangs ==
    \A r \in LaterIds :
        /\ (r \in Ids) ~> (r \in Ids /\ WorkerEnded(r))
        /\ [](r \in Ids /\ pc[r] = "Done" /\ receiver[r] = "open"
                 => delivered[r] # <<>>)

\* A later request has been answered while the first worker is still in an
\* oracle call.
C11_Witness ==
    /\ Len(requests) >= 2
    /\ CallsOracle(requests[1])
    /\ pc[1] = "AuthenticatingBaseChain"
    /\ pc[2] = "Done"
    /\ delivered[2] # <<>>

\* C12: a worker whose caller dropped the receiver before the send ends
\* normally. The step that leaves "Replying" with the receiver gone ends in
\* "Done", never in a panic; it delivers nothing, changes no stage result,
\* makes no further call (nothing is retried), and leaves the queue and
\* every other request as they were; and a worker that has ended never runs
\* again.
C12_DroppedReceiverSilent ==
    [][\A r \in Ids :
         /\ (pc[r] = "Replying" /\ receiver[r] = "dropped" /\ pc'[r] # pc[r])
              => /\ pc'[r] = "Done"
                 /\ delivered' = delivered
                 /\ eth' = eth /\ native' = native
                 /\ calls' = calls /\ resp' = resp
                 /\ input' = input /\ requests' = requests
                 /\ \A q \in Ids \ {r} : pc'[q] = pc[q]
         /\ (pc[r] = "Done" /\ receiver[r] = "dropped")
              => /\ pc'[r] = "Done"
                 /\ calls'[r] = calls[r]
                 /\ delivered'[r] = <<>>]_vars

\* A worker ended normally after its receiver was dropped, and another
\* request was answered all the same.
C12_Witness ==
    \E r, q \in Ids :
        /\ r # q
        /\ receiver[r] = "dropped" /\ pc[r] = "Done" /\ delivered[r] = <<>>
        /\ pc[q] = "Done" /\ delivered[q] # <<>>

\* The workers that were spawned and have not ended.
Running ==
    {r \in Ids : pc[r] \in {"AuthenticatingBaseChain", "AuthenticatingNative",
                             "Replying"}}

\* A bound on the running workers that does not grow with the number of
\* requests: here, any number below the number of requests submitted.
WorkerBound == MaxRequests - 1

\* C13: the number of verification workers running at the same time is
\* bounded, however many requests are queued: it never exceeds WorkerBound.
C13_RunningWorkersBounded == Cardinality(Running) <= WorkerBound

(***************************************************************************)
(* The state transition handler: claims C14 to C20 (under SpecState and    *)
(* SpecCreate).                                                            *)
(***************************************************************************)
\* The step is a call of the handler: call of kind.
Called(call, kind) ==
    /\ ncalls' = ncalls + 1
    /\ last'.call = call
    /\ last'.kind = kind

\* The account at the id, when there is one.
HasAccount(tree, account_id) ==
    account_id \in DOMAIN tree /\ tree[account_id] # None

\* The operation meets the conditions of apply_op on the tree.
Applicable(tree, op) ==
    /\ HasAccount(tree, op.account_id)
    /\ tree[op.account_id][1].nonce = op.tx.nonce
    /\ tree[op.account_id][1].balances[op.tx.token] >= op.tx.amount + op.tx.fee

\* C14: apply_op of a ChangeGroup operation on an account whose nonce is
\* the operation's and whose balance of the token is at least amount + fee
\* succeeds, and a successful apply_op debits that balance by exactly
\* amount + fee, raises the nonce by exactly one, returns exactly one
\* AccountUpdate with the balance and nonce before as old values and those
\* after as new values, and one CollectedFee of the operation's token and
\* fee.
C14_ApplyOpEffect ==
    [][Called("apply_op", "ChangeGroup") =>
         LET op == last'.arg
         IN /\ Applicable(accounts, op) => last'.res = "Ok"
            /\ last'.res = "Ok" =>
                 /\ Applicable(accounts, op)
                 /\ LET before == accounts[op.account_id][1]
                        after == accounts'[op.account_id][1]
                    IN /\ after.balances[op.tx.token] =
                            before.balances[op.tx.token] - (op.tx.amount + op.tx.fee)
                       /\ after.nonce = before.nonce + 1
                       /\ last'.updates =
                            <<UpdateBalance(op.account_id, op.tx.token,
                                            before.balances[op.tx.token],
                                            after.balances[op.tx.token],
                                            before.nonce, after.nonce)>>
                       /\ last'.fee = Some(CollectedFee(op.tx.token, op.tx.fee))]_vars

\* The example of the claim at the scale of the bounds: balance 3, nonce 0,
\* amount 1, fee 1 gives balance 1, nonce 1, fee 1.
C14_Witness ==
    /\ last.call = "apply_op" /\ last.kind = "ChangeGroup" /\ last.res = "Ok"
    /\ last.arg.tx.amount = 1 /\ last.arg.tx.fee = 1
    /\ last.updates = <<UpdateBalance(0, 0, 3, 1, 0, 1)>>
    /\ last.fee = Some(CollectedFee(0, 1))
    /\ accounts[0][1].balances[0] = 1 /\ accounts[0][1].nonce = 1

\* C15: replay safety. apply_op of a ChangeGroup operation whose (account,
\* nonce) was applied with success before is rejected with NonceMismatch,
\* returns no AccountUpdate and no CollectedFee and leaves the account tree
\* as it was; and no (account, nonce) is ever applied with success twice,
\* by apply_op or by apply_tx.
C15_ReplayRejected ==
    /\ [][(Called("apply_op", "ChangeGroup")
            /\ <<last'.arg.account_id, last'.arg.tx.nonce>> \in Range(applied))
           => /\ last'.res = "NonceMismatch"
              /\ last'.updates = <<>>
              /\ last'.fee = None
              /\ accounts' = accounts]_vars
    /\ [](\A i, j \in DOMAIN applied : applied[i] = applied[j] => i = j)

\* The operation the caller holds was applied, and applied again.
C15_Witness ==
    /\ last.call = "apply_op" /\ last.kind = "ChangeGroup"
    /\ pending # None /\ last.arg = pending[1].op
    /\ <<last.arg.account_id, last.arg.tx.nonce>> \in Range(applied)
    /\ last.res = "NonceMismatch"

\* C16: every error outcome of apply_op and apply_tx for a ChangeGroup
\* (account id out of range, nonce mismatch, insufficient balance, any error
\* of create_op) leaves the balance and nonce of every account as before and
\* returns no AccountUpdate and no CollectedFee.
C16_ErrorsChangeNothing ==
    [][((Called("apply_op", "ChangeGroup") \/ Called("apply_tx", "ChangeGroup"))
        /\ last'.res # "Ok")
       => /\ accounts' = accounts
          /\ last'.updates = <<>>
          /\ last'.fee = None
          /\ applied' = applied]_vars

\* The example of the claim at the scale of the bounds: balance 2 with
\* amount 2 + fee 1 at the account's nonce is rejected with
\* InsufficientBalance.
C16_Witness ==
    /\ last.call \in {"apply_op", "apply_tx"} /\ last.kind = "ChangeGroup"
    /\ last.res = "InsufficientBalance"
    /\ accounts[0][1].balances[0] = 2
    /\ (IF last.call = "apply_op" THEN last.arg.tx ELSE last.arg) =
         ChangeGroup(0, "A", 0, 2, 1, accounts[0][1].nonce, "pkA")

\* The accounts of the tree.
AccountsOf(tree) == {i \in DOMAIN tree : tree[i] # None}

\* C17: after any sequence of ChangeGroup and FullChangeGroup create_op,
\* apply_op and apply_tx calls every account's balance of every token is
\* non-negative, and every change of a balance is a debit of no more than
\* the balance the account held at that moment.
C17_BalancesNonNegative ==
    /\ [](\A i \in AccountsOf(accounts) : \A t \in TokenIds :
             accounts[i][1].balances[t] >= 0)
    /\ [][\A i \in AccountsOf(accounts) : \A t \in TokenIds :
             accounts'[i][1].balances[t] # accounts[i][1].balances[t]
             => (accounts[i][1].balances[t] - accounts'[i][1].balances[t])
                    \in 1 .. accounts[i][1].balances[t]]_vars

\* Both kinds have debited a whole balance: a ChangeGroup took all of token
\* 0 of account 0 and a FullChangeGroup all of its token 2.
C17_Witness ==
    /\ accounts # <<>>
    /\ accounts[0][1].balances[0] = 0 /\ accounts[0][1].nonce > 0
    /\ accounts[0][1].balances[2] = 0
    /\ last.res = "Ok" /\ last.updates # <<>>
    /\ last.updates[1].old_balance > 0

\* The nonce presented by the call of the step: that of the operation or
\* of the transaction.
PresentedNonce(call) ==
    IF call.call = "apply_op" THEN call.arg.tx.nonce ELSE call.arg.nonce

\* C18: an account's nonce never decreases; it changes only in a successful
\* ChangeGroup apply_op (alone or within apply_tx) that presents the
\* account's current nonce, and then it grows by exactly one; a
\* FullChangeGroup call never changes a nonce.
C18_NonceStepsByOne ==
    [][\A i \in AccountsOf(accounts) :
         /\ accounts'[i][1].nonce >= accounts[i][1].nonce
         /\ accounts'[i][1].nonce # accounts[i][1].nonce
              => /\ last'.kind = "ChangeGroup"
                 /\ last'.call \in {"apply_op", "apply_tx"}
                 /\ last'.res = "Ok"
                 /\ last'.updates[1].account_id = i
                 /\ PresentedNonce(last') = accounts[i][1].nonce
                 /\ accounts'[i][1].nonce = accounts[i][1].nonce + 1]_vars

\* A FullChangeGroup debited an account whose nonce a ChangeGroup had
\* raised, and reported the nonce as unchanged.
C18_Witness ==
    /\ last.kind = "FullChangeGroup" /\ last.res = "Ok"
    /\ last.updates # <<>>
    /\ last.updates[1].old_nonce = 1 /\ last.updates[1].new_nonce = 1
    /\ accounts[last.updates[1].account_id][1].nonce = 1
    /\ applied # <<>>

\* C19: create_op has no side effect, for ChangeGroup and FullChangeGroup,
\* whether it returns an Operation or an error: the account tree (every
\* account's balances, nonce and key hash) is as before the call; the tree
\* changes only in apply_op (alone or within apply_tx).
C19_CreateOpChangesNothing ==
    [][/\ (ncalls' = ncalls + 1 /\ last'.call = "create_op")
            => accounts' = accounts
       /\ accounts' # accounts
            => (ncalls' = ncalls + 1 /\ last'.call \in {"apply_op", "apply_tx"})]_vars

\* create_op returned a FullChangeGroup operation that carries the whole
\* balance of the account, and the account still holds it.
C19_Witness ==
    /\ last.call = "create_op" /\ last.res = "Ok"
    /\ last.kind = "FullChangeGroup"
    /\ last.op[1].withdraw_amount # None
    /\ last.op[1].withdraw_amount[1] > 0
    /\ accounts[last.arg.account_id][1].balances[last.arg.token]
         = last.op[1].withdraw_amount[1]
    /\ ncalls = MaxCalls

\* The invariants of create_op as the claim lists them, in its order, each
\* with its error, for a transaction on a tree.
SenderIds(tree, tx) == {i \in AccountsOf(tree) : tree[i][1].address = tx.from}

Violations(tree, tx) ==
    << <<tx.token > max_fungible_token_id, "InvalidTokenId">>,
       <<tx.fee # 0 /\ tx.token > max_processable_token, "InvalidFeeTokenId">>,
       <<SenderIds(tree, tx) = {}, "FromAccountNotFound">>,
       <<\E i \in SenderIds(tree, tx) : tree[i][1].pub_key_hash = DefaultPubKeyHash,
         "FromAccountLocked">>,
       <<\E i \in SenderIds(tree, tx) :
            tx.signature \in PubKeyHashes /\ tx.signature # tree[i][1].pub_key_hash,
         "InvalidSignature">>,
       <<\E i \in SenderIds(tree, tx) : tx.account_id # i, "FromAccountIncorrect">> >>

Violated(tree, tx) == {k \in DOMAIN Violations(tree, tx) : Violations(tree, tx)[k][1]}

\* C20: create_op for a ChangeGroup returns an Operation only if none of
\* its invariants is violated, and otherwise the error of the first
\* violated invariant in the order: InvalidTokenId, InvalidFeeTokenId,
\* FromAccountNotFound, FromAccountLocked, InvalidSignature,
\* FromAccountIncorrect. The Operation carries the transaction and the id
\* resolved from the sender address.
C20_FirstViolatedInvariant ==
    (last.call = "create_op" /\ last.kind = "ChangeGroup") =>
        LET violated == Violated(accounts, last.arg)
        IN IF violated = {}
           THEN /\ last.res = "Ok"
                /\ last.op = Some(ChangeGroupOp(last.arg, last.arg.account_id))
           ELSE /\ last.res =
                     Violations(accounts, last.arg)[
                         CHOOSE k \in violated : \A m \in violated : k <= m][2]
                /\ last.op = None

\* A transaction with a wrong signature and a wrong account id is rejected
\* for its signature.
C20_Witness ==
    /\ last.call = "create_op" /\ last.kind = "ChangeGroup"
    /\ {5, 6} \subseteq Violated(accounts, last.arg)
    /\ last.res = "InvalidSignature"

\* C21: apply_op of a FullChangeGroup operation that debits (it carries an
\* amount) takes the balance as it stands at apply time: whenever it is
\* called on an operation create_op returned, also after other operations
\* on the same account and token, it succeeds and leaves the balance of
\* the token at exactly zero; the zero-balance assertion never fails.
C21_FullDebitAtApplyTime ==
    (/\ last.call = "apply_op" /\ last.kind = "FullChangeGroup"
     /\ last.arg.withdraw_amount # None)
    => /\ last.res = "Ok"
       /\ accounts[last.arg.priority_op.account_id][1]
              .balances[last.arg.priority_op.token] = 0

(***************************************************************************)
(* check_correctness: claims C22 to C25 (under SpecCheck).                 *)
(***************************************************************************)
\* The first call of check_correctness on a transaction of the kind was
\* made: txcall.before is the transaction it was called on.
FirstCheckOf(kind) ==
    /\ txcall.call = "check_correctness" /\ txcall.n = 1
    /\ txcall.before[1].kind = kind

\* The signature of the transaction is one over its bytes.
Recovers(t) ==
    /\ ~get_bytes(t).panic
    /\ verify_musig(t.signature, get_bytes(t).bytes) # None

InconsistentTimeRange(t) ==
    t.time_range # None /\ t.time_range[1].valid_from > t.time_range[1].valid_until

\* The first of the list's checks that fails, or "Ok".
FirstFailing(checks) ==
    LET failing == {k \in DOMAIN checks : checks[k][1]}
    IN IF failing = {} THEN "Ok"
       ELSE checks[CHOOSE k \in failing : \A m \in failing : k <= m][2]

\* The checks of a ChangeGroup as the claim lists them.
ChangeGroupChecks(t, server_group_id) ==
    << <<t.amount > u128_MAX, "WrongAmount">>,
       <<t.fee > u128_MAX, "WrongFee">>,
       <<t.fee \notin PackableAmounts, "FeeNotPackable">>,
       <<t.account_id > max_account_id, "WrongAccountId">>,
       <<t.token > max_fungible_token_id, "WrongToken">>,
       <<t.group1 # server_group_id, "WrongGroup">>,
       <<InconsistentTimeRange(t), "WrongTimeRange">>,
       <<t.fee # 0 /\ t.token > max_processable_token, "WrongTokenForPayingFee">>,
       <<~Recovers(t), "WrongSignature">> >>

\* C22: ChangeGroup::check_correctness returns the error of the first
\* failing check in the order WrongAmount, WrongFee, FeeNotPackable,
\* WrongAccountId, WrongToken, WrongGroup, WrongTimeRange,
\* WrongTokenForPayingFee, WrongSignature, and Ok only when none fails; when
\* a check before the signature fails the signature is not restored (the
\* signer cache stays empty).
C22_ChangeGroupChecksInOrder ==
    FirstCheckOf("ChangeGroup") =>
        /\ txcall.res = FirstFailing(ChangeGroupChecks(txcall.before[1],
                                                       config[1].server_group_id))
        /\ txcall.res \notin {"Ok", "WrongSignature"}
             => txObject[1].cached_signer = NotCached

\* A ChangeGroup of a token above the fungible maximum and of another group
\* is rejected for its token.
C22_Witness ==
    /\ FirstCheckOf("ChangeGroup")
    /\ txcall.before[1].token > max_fungible_token_id
    /\ txcall.before[1].group1 # config[1].server_group_id
    /\ txcall.res = "WrongToken"

\* The checks of a Transfer in the order the claim gives: numeric bounds,
\* packability, account id, token id, group, destination, time range (and
\* the fee token), the whitelist of permissioned mode (sender, then
\* receiver), the signature.
TransferChecks(t, sender_autorisation, receiver_autorisation, c) ==
    << <<t.amount > u128_MAX, "WrongAmount">>,
       <<t.fee > u128_MAX, "WrongFee">>,
       <<t.amount \notin PackableAmounts, "AmountNotPackable">>,
       <<t.fee \notin PackableAmounts, "FeeNotPackable">>,
       <<t.account_id > max_account_id, "WrongAccountId">>,
       <<t.token > max_token_id, "WrongToken">>,
       <<t.group1 # c.server_group_id, "WrongGroup">>,
       <<t.to = ZeroAddress, "WrongToAddress">>,
       <<InconsistentTimeRange(t), "WrongTimeRange">>,
       <<t.fee # 0 /\ t.token > max_processable_token, "WrongTokenForPayingFee">>,
       <<c.permissioned /\ ~sender_autorisation, "NotAllowedSender">>,
       <<c.permissioned /\ ~receiver_autorisation, "NotAllowedDestination">>,
       <<~Recovers(t), "WrongSignature">> >>

\* C23: Transfer::check_correctness reports the error of the first failing
\* check in the order numeric bounds, packability, account-id range,
\* token-id range, group-id match, non-zero destination, time-range
\* consistency, permissioned-mode whitelist (sender then receiver), native
\* signature: a numeric or range error goes before a whitelist error, and
\* a token error before a group error.
C23_TransferChecksInOrder ==
    FirstCheckOf("Transfer") =>
        txcall.res = FirstFailing(TransferChecks(txcall.before[1], txcall.sender,
                                                 txcall.receiver, config[1]))

\* C24: check_correctness is idempotent. A second call on the same
\* transaction with the same flags returns what the first returned, and no
\* call changes what verify_signature returns for the transaction.
C24_CheckIdempotent ==
    [][txcall'.n = txcall.n + 1 =>
         /\ txcall.n = 1 => txcall'.res = txcall.res
         /\ tx_verify_signature(txObject'[1]) = tx_verify_signature(txObject[1])]_vars

\* The second call answered Ok from the signer the first call cached.
C24_Witness ==
    /\ txcall.n = 2 /\ txcall.res = "Ok"
    /\ txcall.before[1].cached_signer = Cached(Some("pkA"))
    /\ txcall.before[1].kind = "ChangeGroup"

\* C25: check_correctness is a pure function of the transaction and its
\* flags: the result of a call is the result under every process
\* configuration (server group id, permissioned flag).
C25_IndependentOfConfiguration ==
    (txcall.call = "check_correctness" /\ txcall.n = 1) =>
        \A c \in Configs :
            check_correctness(txcall.before[1], txcall.sender,
                              txcall.receiver, c).res = txcall.res

\* C26: the signer cache is never the source of truth. In every state of a
\* transaction's life verify_signature returns what it returns once the
\* cache is wiped.
C26_CacheNeverSourceOfTruth ==
    txObject # None =>
        tx_verify_signature(txObject[1])
            = tx_verify_signature(wipe_signer_cache(txObject[1]))

\* C27 as stated: writing another value into any single field of a
\* transaction (account_id, from, to, token, amount, fee, group1, group2,
\* nonce, fast, time_range) changes its bytes.
C27_AnyFieldChangesBytes ==
    (txcall.call = "set_field" /\ txcall.res # "signature") =>
        get_bytes(txObject[1]) # get_bytes(txcall.before[1])

\* The transactions whose numeric fields the bytes hold exactly: the amount
\* of a ChangeGroup within u128, the amount of a Transfer packable, the fee
\* packable.
ExactlyEncoded(t) ==
    /\ is_fee_amount_packable(t.fee)
    /\ IF t.kind = "ChangeGroup" THEN t.amount <= u128_MAX
       ELSE is_token_amount_packable(t.amount)

\* The time range the bytes of the transaction show.
EncodedTimeRange(t) ==
    IF t.kind = "Transfer" /\ t.time_range = None
    THEN Some(DefaultTimeRange) ELSE t.time_range

\* C27, amended: get_bytes of a ChangeGroup panics exactly when the amount
\* is above u128::MAX. Writing fast or the signature leaves the bytes as
\* they were. Writing another value into one of account_id, from, to,
\* token, amount, fee, group1, group2, nonce or time_range changes the
\* bytes when the numeric fields are exactly encoded before and after, a
\* Transfer without a time range counting as one with the default range.
C27_SignedFieldChangesBytes ==
    /\ txObject # None =>
         (get_bytes(txObject[1]).panic
            <=> (txObject[1].kind = "ChangeGroup"
                 /\ txObject[1].amount > u128_MAX))
    /\ txcall.call = "set_field" =>
         LET old == txcall.before[1]
             new == txObject[1]
         IN IF txcall.res \in {"fast", "signature"}
            THEN get_bytes(new) = get_bytes(old)
            ELSE (/\ ExactlyEncoded(old) /\ ExactlyEncoded(new)
                  /\ EncodedTimeRange(old) # EncodedTimeRange(new)
                        \/ txcall.res # "time_range")
                 => /\ ~get_bytes(new).panic
                    /\ get_bytes(new).bytes # get_bytes(old).bytes

\* group2 of an exactly encoded ChangeGroup was written, after another
\* write that set fast.
C27_Witness ==
    /\ txcall.call = "set_field" /\ txcall.res = "group2"
    /\ txObject[1].kind = "ChangeGroup"
    /\ ExactlyEncoded(txObject[1])
    /\ txObject[1].fast

\* C28: the public data of a ChangeGroupOp is the op code 0x0c, the account
\* id, the token id, the 128-bit amount, the packed fee, the 20 bytes of
\* the destination and the 2 bytes of group2, zero-padded to 6 chunks; the
\* parser returns from it, for a packable fee, the same account id, token,
\* amount, fee, destination and group2 with from, nonce, group1 and the
\* time range at their defaults; an input of another length is rejected
\* with PubdataSizeMismatch.
C28_PubdataLayoutAndRoundTrip ==
    /\ (pubdata.state # None /\ opObject[1].tx.amount <= u128_MAX) =>
         LET op == opObject[1]
             data == pubdata.state[1].data
         IN /\ ~pubdata.state[1].panic
            /\ Len(data) = 6 * CHUNK_BYTES
            /\ data[1] = 12
            /\ be_value(SubSeq(data, 2, 5), 256) = op.account_id
            /\ be_value(SubSeq(data, 6, 9), 256) = op.tx.token
            /\ be_value(SubSeq(data, 10, 25), 256) = op.tx.amount
            /\ SubSeq(data, 26, 27) = pack_fee_amount(op.tx.fee)
            /\ SubSeq(data, 28, 47) = as_bytes(op.tx.to)
            /\ be_value(SubSeq(data, 48, 49), 256) = op.tx.group2
            /\ \A i \in 50..Len(data) : data[i] = 0
    /\ pubdata.parsed # None =>
         LET op == opObject[1]
             bytes == pubdata.parsed[1].input
             result == pubdata.parsed[1].result
         IN IF Len(bytes) # 6 * CHUNK_BYTES
            THEN result.res = "PubdataSizeMismatch"
            ELSE is_fee_amount_packable(op.tx.fee) =>
                   /\ result.res = "Ok"
                   /\ result.op[1].account_id = op.account_id
                   /\ result.op[1].tx.account_id = op.account_id
                   /\ result.op[1].tx.token = op.tx.token
                   /\ result.op[1].tx.amount = op.tx.amount
                   /\ result.op[1].tx.fee = op.tx.fee
                   /\ result.op[1].tx.to = op.tx.to
                   /\ result.op[1].tx.group2 = op.tx.group2
                   /\ result.op[1].tx.from = ZeroAddress
                   /\ result.op[1].tx.nonce = 0
                   /\ result.op[1].tx.group1 = 0
                   /\ result.op[1].tx.time_range = Some(DefaultTimeRange)

\* The public data of an operation with a two-byte account id and group,
\* a fee and an amount was parsed back.
C28_Witness ==
    /\ pubdata.parsed # None
    /\ pubdata.parsed[1].result.res = "Ok"
    /\ opObject[1].account_id = 258
    /\ opObject[1].tx.group2 = 257
    /\ opObject[1].tx.fee = 2
    /\ opObject[1].tx.amount = u128_MAX
    /\ opObject[1].tx.to = "C"

\* C29: the public data the state side writes for a ChangeGroupOp and the
\* bits the circuit witness of the same operation writes are the same
\* bits, CHUNKS chunks long, and one panics when the other does.
C29_StateAndWitnessPubdataAgree ==
    (pubdata.state # None /\ pubdata.witness # None) =>
        /\ pubdata.state[1].panic = pubdata.witness[1].panic
        /\ ~pubdata.state[1].panic =>
             /\ from_be_bytes(pubdata.state[1].data) = pubdata.witness[1].bits
             /\ Len(pubdata.witness[1].bits) = CHUNKS * CHUNK_BIT_WIDTH

\* Both sides wrote the public data of an operation with every field set.
C29_Witness ==
    /\ pubdata.state # None /\ pubdata.witness # None
    /\ ~pubdata.witness[1].panic
    /\ opObject[1].account_id = 258
    /\ opObject[1].tx.token = 300
    /\ opObject[1].tx.amount = 1
    /\ opObject[1].tx.fee = u128_MAX
    /\ opObject[1].tx.group2 = 257
    /\ opObject[1].tx.to = "B"

\* C30: the Ethereum sign message of a transaction is its message part
\* followed by the line "Nonce: N", N its nonce, after a newline when the
\* part is not empty; the part holds no nonce line.
C30_MessageIsPartThenNonce ==
    /\ (txcall.call = "get_ethereum_sign_message_part" /\ txcall.res # None) =>
         \A i \in 1..Len(txcall.res[1]) : txcall.res[1][i] # "Nonce: "
    /\ (txcall.call = "get_ethereum_sign_message" /\ txcall.res # None) =>
         /\ txcall.before # None
         /\ LET part == txcall.before[1]
                nonce == <<"Nonce: ", ToString(txObject[1].nonce)>>
            IN txcall.res[1] = IF part = <<>> THEN nonce
                               ELSE part \o <<"\n">> \o nonce

\* The message of a transaction with an empty part was asked for.
C30_Witness ==
    /\ txcall.call = "get_ethereum_sign_message"
    /\ txcall.res = Some(<<"Nonce: ", "7">>)
    /\ txObject[1].kind = "ChangeGroup"

\* The sum of the balances of the token over the accounts of the tree.
RECURSIVE SumBalances(_, _, _)
SumBalances(tree, ids, token) ==
    IF ids = {} THEN 0
    ELSE LET i == CHOOSE i \in ids : TRUE
         IN tree[i][1].balances[token] + SumBalances(tree, ids \ {i}, token)

TotalBalance(tree, token) == SumBalances(tree, AccountsOf(tree), token)

\* C31: the frame of a successful apply_op of a ChangeGroup operation. Only
\* the sender's balance of the operation's token and the sender's nonce
\* change: every other account, every other balance of the sender, its
\* address and its key hash are as before, and the sum of the balances of
\* the token over all accounts is lower by exactly amount + fee.
C31_ApplyOpFrame ==
    [][(Called("apply_op", "ChangeGroup") /\ last'.res = "Ok") =>
         LET op == last'.arg
             id == op.account_id
         IN /\ DOMAIN accounts' = DOMAIN accounts
            /\ \A i \in DOMAIN accounts : i # id => accounts'[i] = accounts[i]
            /\ accounts'[id] # None
            /\ accounts'[id][1].address = accounts[id][1].address
            /\ accounts'[id][1].pub_key_hash = accounts[id][1].pub_key_hash
            /\ \A t \in TokenIds :
                 t # op.tx.token =>
                   accounts'[id][1].balances[t] = accounts[id][1].balances[t]
            /\ TotalBalance(accounts', op.tx.token) =
                 TotalBalance(accounts, op.tx.token) - (op.tx.amount + op.tx.fee)]_vars

\* A successful apply_op on a tree where another account holds the token
\* too, and the sender other tokens.
C31_Witness ==
    /\ last.call = "apply_op" /\ last.kind = "ChangeGroup" /\ last.res = "Ok"
    /\ last.arg.account_id = 0 /\ last.arg.tx.amount = MaxAmount
    /\ accounts[1][1].balances[0] = MaxBalance
    /\ accounts[0][1].balances[2] = 1

\* C32: create_op of a ChangeGroup rejects a signature only when it
\* recovers to a key hash other than the one stored in the account. A
\* transaction whose signature does not recover at all is not rejected for
\* its signature, and yields an Operation when the other invariants hold.
C32_UnrecoveredSignatureAccepted ==
    (last.call = "create_op" /\ last.kind = "ChangeGroup") =>
        LET tx == last.arg
            signer == verify_signature(tx)
        IN /\ last.res = "InvalidSignature" =>
                /\ signer # None
                /\ \E i \in SenderIds(accounts, tx) :
                       accounts[i][1].pub_key_hash # signer[1]
           /\ (signer = None /\ Violated(accounts, tx) = {}) =>
                /\ last.res = "Ok"
                /\ last.op = Some(ChangeGroupOp(tx, tx.account_id))

\* A transaction whose signature does not recover got its Operation.
C32_Witness ==
    /\ last.call = "create_op" /\ last.kind = "ChangeGroup"
    /\ verify_signature(last.arg) = None
    /\ last.res = "Ok" /\ last.op # None

\* The orders of a list.
Orders(seq) ==
    IF seq = <<>> THEN {<<>>}
    ELSE {[i \in 1..Len(seq) |-> seq[p[i]]] : p \in Permutations(1..Len(seq))}

\* C33: the outcome of batch matching depends neither on the order of the
\* signatures nor on the order of the senders: for every order of the two
\* lists verify_eth_signature_txs_batch returns the same result.
C33_OrderIndependent ==
    bst.res # "Running" =>
        \A senders \in Orders(bSenders) : \A signatures \in Orders(bSignatures) :
            verify_eth_signature_txs_batch(senders, signatures).res = bst.res

\* C34: a FullChangeGroup of an account id without an account, or of an
\* address other than the account's, yields an operation without a
\* withdraw amount, and apply_op of such an operation returns no fee and no
\* update and leaves the accounts as they are; apply_op of every other
\* operation returns exactly one AccountUpdate with old_nonce = new_nonce
\* and no fee.
C34_FullChangeGroupNoOpOrOneUpdate ==
    /\ []((last.call = "create_op" /\ last.kind = "FullChangeGroup"
           /\ last.res = "Ok"
           /\ (~HasAccount(accounts, last.arg.account_id)
               \/ accounts[last.arg.account_id][1].address # last.arg.eth_address))
          => last.op[1].withdraw_amount = None)
    /\ [][Called("apply_op", "FullChangeGroup") =>
            IF last'.arg.withdraw_amount = None
            THEN /\ last'.res = "Ok"
                 /\ last'.fee = None
                 /\ last'.updates = <<>>
                 /\ accounts' = accounts
            ELSE /\ last'.res = "Ok"
                 /\ last'.fee = None
                 /\ Len(last'.updates) = 1
                 /\ last'.updates[1].old_nonce = last'.updates[1].new_nonce]_vars

(***************************************************************************)
(* The base-chain and native stages of one request: claims C35 to C38.     *)
(***************************************************************************)
\* The calls of the log that examine the message signature of transaction k.
SignatureCalls(r, k) ==
    {c \in Logged(r) :
        c.tx = k /\ c.call \in {"signature_recover_signer", "is_eip1271_signature_correct"}}

\* The calls of the log made by the native stage.
NativeLogged(r) == {c \in Logged(r) : c.call \in NativeCalls}

\* The oracle was asked about the ChangeGroup at index k of request r.
AskedTransfer(r, k) ==
    \E c \in Logged(r) : c.call = "is_user_allowed_to_transfer_to_this_group" /\ c.tx = k

\* C35 (under SpecVerify): for every ChangeGroup of a Tx or Batch request,
\* with or without eth_sign_data, a request that passed the base-chain stage
\* had the oracle asked whether the transfer is allowed; and when the oracle
\* answered no, the request is rejected with UserNotWhitelisted, the
\* signature of that transaction was not examined and no native check ran.
C35_EveryChangeGroupAsked ==
    \A r \in Ids :
        requests[r].type \in {"Tx", "Batch"} =>
            \A k \in DOMAIN requests[r].txs :
                LET tx == requests[r].txs[k] IN
                tx.kind = "ChangeGroup" =>
                    /\ eth[r] = "Ok" => AskedTransfer(r, k)
                    /\ Call("is_user_allowed_to_transfer_to_this_group", k, "false")
                           \in Logged(r) =>
                          /\ eth[r] = "UserNotWhitelisted"
                          /\ resp[r] = "UserNotWhitelisted"
                          /\ SignatureCalls(r, k) = {}
                          /\ native[r] = "NotRun"
                          /\ NativeLogged(r) = {}

\* The calls of the log that verify a signature or ask the oracle.
VerifyingCalls(r) ==
    {c \in Logged(r) : c.call \in OracleCalls \cup {"signature_recover_signer"}}

NoOwnCheck(txs) == \A k \in DOMAIN txs : ~HasOwnCheck(txs[k])

\* Order and Toggle2FA: the signature is verified against the sender, a
\* mismatch is IncorrectEthSignature and Ok means the signature matched.
SignatureAlwaysVerified(r) ==
    LET signature == requests[r].sign_data[1]
        sender == requests[r].senders[1]
    IN /\ SignatureCall(signature, sender, 0) \in Logged(r)
       /\ verify_ethereum_signature(signature, sender) = "false" =>
             (eth[r] = "IncorrectEthSignature" /\ native[r] = "NotRun")
       /\ eth[r] = "Ok" => verify_ethereum_signature(signature, sender) = "true"

\* C36 as stated (under SpecVerify): a Tx request whose transaction has no
\* eth_sign_data and is neither an on-chain ChangePubKey nor a ChangeGroup,
\* and a Batch request without batch signature whose members all have no
\* eth_sign_data, pass the base-chain stage with no signature verified and
\* no oracle call; an Order or Toggle2FA request always has its signature
\* verified against the sender and fails with IncorrectEthSignature when it
\* does not match.
C36_UnsignedPasses ==
    \A r \in Ids :
        eth[r] # "NotRun" =>
            /\ (requests[r].type = "Tx" /\ NoOwnCheck(requests[r].txs)) =>
                  (eth[r] = "Ok" /\ VerifyingCalls(r) = {})
            /\ (/\ requests[r].type = "Batch"
                /\ requests[r].batch_sign_data = None
                /\ \A k \in DOMAIN requests[r].txs :
                      requests[r].txs[k].eth_sign_data = None) =>
                  (eth[r] = "Ok" /\ VerifyingCalls(r) = {})
            /\ requests[r].type \in {"Order", "Toggle2FA"} => SignatureAlwaysVerified(r)

\* C36 amended (under SpecVerify): the same, for a Batch request only when
\* it has as many senders as transactions and none of its members is an
\* on-chain ChangePubKey or a ChangeGroup: the length test comes first, and
\* the oracle is asked about such members whether or not they carry
\* eth_sign_data.
C36_UnsignedPlainPasses ==
    \A r \in Ids :
        eth[r] # "NotRun" =>
            /\ (requests[r].type = "Tx" /\ NoOwnCheck(requests[r].txs)) =>
                  (eth[r] = "Ok" /\ VerifyingCalls(r) = {})
            /\ (/\ requests[r].type = "Batch"
                /\ requests[r].batch_sign_data = None
                /\ Len(requests[r].senders) = Len(requests[r].txs)
                /\ NoOwnCheck(requests[r].txs)) =>
                  (eth[r] = "Ok" /\ VerifyingCalls(r) = {})
            /\ requests[r].type \in {"Order", "Toggle2FA"} => SignatureAlwaysVerified(r)

\* C36 witness: a batch of two transactions without any signature was
\* verified with no signature or oracle call in its log.
C36_Witness ==
    /\ requests[1].type = "Batch"
    /\ Len(requests[1].txs) = 2
    /\ Len(requests[1].senders) = 2
    /\ requests[1].batch_sign_data = None
    /\ NoOwnCheck(requests[1].txs)
    /\ eth[1] = "Ok"
    /\ VerifyingCalls(1) = {}
    /\ Results(1) = {"VerifiedTx"}

\* The signature the base-chain stage of request r verifies against the
\* sender and nothing else: the sign_data of an Order or Toggle2FA, the
\* eth_sign_data of a single transaction that is neither an on-chain
\* ChangePubKey nor a ChangeGroup; None for every other request.
OnlySignature(data) ==
    IF data.type \in {"Order", "Toggle2FA"} THEN data.sign_data
    ELSE IF /\ data.type = "Tx"
            /\ data.txs[1].kind \notin {"ChangeGroup"}
            /\ ~(data.txs[1].kind = "ChangePubKey" /\ data.txs[1].onchain)
         THEN data.txs[1].eth_sign_data
    ELSE None

\* C37 (under SpecVerify): a request verified by one signature of the
\* recoverable form passes the base-chain stage exactly when the address
\* recovered from the signature is the sender; a signature that does not
\* recover is a mismatch: the result is IncorrectEthSignature, the worker
\* does not panic and the requester is answered; and no oracle call is made.
C37_RecoveredAddressIsSender ==
    \A r \in Ids :
        LET data == requests[r]
            recovered == signature_recover_signer(OnlySignature(data)[1])
        IN (/\ OnlySignature(data) # None
            /\ OnlySignature(data)[1].form = "EthereumSignature"
            /\ eth[r] # "NotRun") =>
              /\ eth[r] = IF recovered.ok /\ recovered.address = data.senders[1]
                          THEN "Ok" ELSE "IncorrectEthSignature"
              /\ pc[r] # "Panicked" \/ native[r] = "Panic"
              /\ eth[r] # "Ok" => (native[r] = "NotRun" /\ resp[r] = "IncorrectEthSignature")
              /\ \A c \in Logged(r) : c.call \notin OracleCalls

\* C37 witness: an Order whose signature does not recover was answered
\* IncorrectEthSignature.
C37_Witness ==
    /\ requests[1].type = "Order"
    /\ requests[1].sign_data = Some(EthereumSignature(NoAddress))
    /\ eth[1] = "IncorrectEthSignature"
    /\ pc[1] = "Done"
    /\ Results(1) = {"IncorrectEthSignature"}

\* The calls of the native stage of request r that follow
\* establish_connection, in the order they were made.
MemberCalls(r) ==
    SelectSeq(calls[r], LAMBDA c : c.call \in {"is_account_autorised", "check_correctness"})

\* The calls of a native stage that checks the members 1..n in order, each
\* after the lookups of its own sender and receiver, where only the last
\* may fail.
RECURSIVE MembersInOrder(_, _)
MembersInOrder(txs, n) ==
    IF n = 0 THEN <<>>
    ELSE MembersInOrder(txs, n - 1)
         \o <<Call("is_account_autorised", n, "Ok"), Call("is_account_autorised", n, "Ok"),
              Call("check_correctness", n, IF txs[n].correct THEN "Ok" ELSE "Err")>>

Incorrect(txs) == {k \in DOMAIN txs : ~txs[k].correct}

FirstIncorrect(txs) == CHOOSE k \in Incorrect(txs) : \A j \in Incorrect(txs) : k <= j

\* C38 (under SpecVerify): in the native stage of a Batch request the
\* members are checked in batch order, each with the authorization lookups
\* of its own sender and receiver; the first member whose check_correctness
\* fails ends the stage with IncorrectTx for the whole batch and no later
\* member is checked; and a VerifiedTx is produced only when every member
\* passed check_correctness.
C38_BatchAllOrNothing ==
    \A r \in Ids :
        LET txs == requests[r].txs IN
        requests[r].type = "Batch" =>
            /\ native[r] \notin {"NotRun", "Panic"} =>
                  /\ native[r] = IF Incorrect(txs) = {} THEN "Ok" ELSE "IncorrectTx"
                  /\ MemberCalls(r) =
                        MembersInOrder(txs, IF Incorrect(txs) = {} THEN Len(txs)
                                            ELSE FirstIncorrect(txs))
                  /\ resp[r] = IF Incorrect(txs) = {} THEN "VerifiedTx" ELSE "IncorrectTx"
            /\ "VerifiedTx" \in Results(r) =>
                  \A k \in DOMAIN txs : Call("check_correctness", k, "Ok") \in Logged(r)

\* C38 witness: a batch of two transactions whose first member fails
\* check_correctness was answered IncorrectTx and its second member was
\* not checked.
C38_Witness ==
    /\ requests[1].type = "Batch"
    /\ Len(requests[1].txs) = 2
    /\ ~requests[1].txs[1].correct
    /\ native[1] = "IncorrectTx"
    /\ Results(1) = {"IncorrectTx"}
    /\ \A c \in Logged(1) : c.tx # 2

(***************************************************************************)
(* ChangeGroup::new_signed: claim C39.                                     *)
(***************************************************************************)
\* C39 (under SpecNewSigned): new_signed never panics: it returns Ok with a
\* transaction that passes check_correctness, or the error of the first
\* failing check of the transaction built from its arguments; an amount
\* above u128::MAX gives WrongAmount, and a fee that is not packable (with
\* amount and fee within u128) gives FeeNotPackable.
C39_NewSignedNeverPanics ==
    /\ txcall.call = "new_signed" =>
          LET built == txcall.before[1] IN
          /\ txcall.res # "Panic"
          /\ built.amount > u128_MAX => txcall.res = "WrongAmount"
          /\ (/\ built.amount <= u128_MAX
              /\ built.fee <= u128_MAX
              /\ ~is_fee_amount_packable(built.fee)) => txcall.res = "FeeNotPackable"
          /\ txcall.res = "Ok" <=> txObject # None
          /\ txcall.res # "Ok" =>
                txcall.res = ChangeGroup_check_correctness(built, config[1]).res
    /\ (txcall.call = "check_correctness" /\ txcall.n = 1) => txcall.res = "Ok"

(***************************************************************************)
(* ChangeGroupBuilder::tx: claim C40.                                      *)
(***************************************************************************)
\* The required fields, in the order the claim gives.
RequiredFields == <<"token", "amount", "to", "group1", "group2">>

Unset(b) == {i \in DOMAIN RequiredFields : b[RequiredFields[i]] = None}

FirstUnset(b) == RequiredFields[CHOOSE i \in Unset(b) : \A j \in Unset(b) : i <= j]

\* The call of the log with this name, None when there is none.
LogCall(log, name) ==
    IF \E k \in DOMAIN log : log[k][1] = name
    THEN Some(log[CHOOSE k \in DOMAIN log : log[k][1] = name])
    ELSE None

\* C40 (under SpecBuilder): tx() of a builder with a required field unset
\* fails with MissingRequiredField naming the first unset field in the
\* order token, amount, to, group1, group2, and calls neither the provider
\* nor the signer. With every required field set, an unset nonce is asked
\* from the provider (account_info, the committed nonce), an unset fee is
\* asked from the provider (get_tx_fee for TxFeeTypes::Withdraw, the total
\* fee), an unset valid_from is 0 and an unset valid_until is u64::MAX:
\* these are the values given to the signer and found in the transaction.
C40_BuilderDefaults ==
    sdkcall.call = "tx" =>
        LET b == sdkcall.before[1]
            r == sdkcall.result[1]
            w == wallet[1]
            sign == LogCall(r.log, "sign_change_group")
            ask_nonce == LogCall(r.log, "account_info")
            ask_fee == LogCall(r.log, "get_tx_fee")
        IN IF Unset(b) # {}
           THEN /\ r.res = "MissingRequiredField"
                /\ r.field = FirstUnset(b)
                /\ r.log = <<>>
                /\ r.tx = None
           ELSE /\ r.res # "MissingRequiredField"
                /\ (ask_nonce # None) <=> (b.nonce = None)
                /\ ask_fee # None => (b.fee = None /\ ask_fee[1][2] = "Withdraw")
                /\ (b.fee = None /\ sign # None) => ask_fee # None
                /\ sign # None =>
                      LET fee == sign[1][4]
                          nonce == sign[1][8]
                          time_range == sign[1][9]
                      IN /\ nonce = IF b.nonce # None THEN b.nonce[1]
                                    ELSE w.provider.account_info[1].committed.nonce
                         /\ fee = IF b.fee # None THEN b.fee[1]
                                  ELSE w.provider.get_tx_fee[1]["Withdraw"].total_fee
                         /\ time_range.valid_from =
                               (IF b.valid_from # None THEN b.valid_from[1] ELSE 0)
                         /\ time_range.valid_until =
                               (IF b.valid_until # None THEN b.valid_until[1]
                                ELSE u64_MAX)
                         /\ r.res = "Ok" =>
                               /\ r.tx[1].nonce = nonce
                               /\ r.tx[1].fee = fee
                               /\ r.tx[1].time_range = Some(time_range)
                /\ r.res = "Ok" => sign # None

\* C40 witness: tx() of a builder with only the required fields set asked
\* the provider for the nonce and for the fee and returned a transaction
\* with the defaults.
C40_Witness ==
    /\ sdkcall.call = "tx"
    /\ Unset(sdkcall.before[1]) = {}
    /\ sdkcall.before[1].nonce = None
    /\ sdkcall.before[1].fee = None
    /\ sdkcall.before[1].valid_from = None
    /\ sdkcall.before[1].valid_until = None
    /\ sdkcall.result[1].res = "Ok"
    /\ Len(sdkcall.result[1].log) = 3
    /\ sdkcall.result[1].tx[1].fee = Fees["Withdraw"].total_fee
    /\ sdkcall.result[1].tx[1].time_range = Some(TimeRange(0, u64_MAX))

====
